---- MODULE Spec2Model ----
(***************************************************************************)
(* Model of the leaflet map plugin.                                        *)
(*                                                                         *)
(*  - build side (core.ts): the marker registry LEAFLET_MAP_PLUGIN_DATA,   *)
(*    the validators, buildMarkerData and transformMapElement/buildMapData *)
(*  - client side (inline.ts): the tool control with its pan and measure   *)
(*    tools                                                                *)
(*                                                                         *)
(* JavaScript values are tagged records: [str |-> <<chars>>], [num |-> n], *)
(* [nan |-> TRUE], [null |-> TRUE], [undef |-> TRUE], [arr |-> <<...>>],   *)
(* [obj |-> f] with f a function from property names to values.           *)
(* Strings are sequences of one-character strings so that the regular      *)
(* expressions and string comparisons of the code are computed.            *)
(***************************************************************************)
EXTENDS Integers, Sequences, FiniteSets, TLC

VARIABLES
    markerMap,   \* LEAFLET_MAP_PLUGIN_DATA.markerMap: own keys -> array of MarkerEntry
    nextId,      \* identity of the next MarkerEntry object that is created
    registered,  \* history: the MarkerEntry objects pushed, in push order
    treeIn,      \* the children of the tree handed to the last transformMapElement
    tree,        \* the same children after the last transformMapElement
    treeAt,      \* history: Len(registered) when the last transformMapElement ran
    lastCall,    \* history: which handler ran last, and how it ended
    buildStart,  \* history: Len(registered) when the current build was started
    isSelected,  \* SubControl._isSelected of each control of the ControlContainer
    activeIndex, \* ControlContainer.activeIndex
    cursor,      \* map.getContainer().style.cursor
    moveListeners, \* number of "mousemove" listeners on the map
    state,       \* MeasureControl.state
    pathItems,   \* MeasureControl.pathItems
    distance,    \* MeasureControl.distance
    pathLine,    \* coordinates of MeasureControl.pathLine
    previewLine, \* coordinates of MeasureControl.previewLine
    previewTooltip, \* MeasureControl.previewTooltip: shown, position, content
    pointLayer,  \* the circle markers on MeasureControl.pointLayer
    lastElement, \* MeasureControl.lastElement: index into pointLayer, 0 if none on it
    options,     \* SubControl.options of the measure control (the map's dataset)
    event,       \* history: the last client event handled
    validation,  \* history: the last validator call, its argument and its result
    navMaps,     \* the div.leaflet-map elements the "nav" listener has met, each
                 \* with its map item, the zoom of it and the markers on it
    cleanupFns,  \* the callbacks given to window.addCleanup, by their map element
    viewActive,  \* whether a view is shown: "nav" was fired and no teardown since
    viewCount    \* history: the number of views shown so far

buildVars == <<markerMap, nextId, registered, treeIn, tree, treeAt, lastCall,
              buildStart>>
toolVars == <<isSelected, activeIndex, cursor, moveListeners, state, pathItems,
              distance, pathLine, previewLine, previewTooltip, pointLayer,
              lastElement, options, event>>
validatorVars == <<validation>>
navVars == <<navMaps, cleanupFns, viewActive, viewCount>>
vars == <<buildVars, toolVars, validatorVars, navVars>>

----------------------------------------------------------------------------
(* Bounds of the model *)

MaxMarkers == 2
MaxPath == 3

----------------------------------------------------------------------------
(* JavaScript values *)

Str(s) == [str |-> s]
Num(n) == [num |-> n]
Arr(a) == [arr |-> a]
Obj(f) == [obj |-> f]
NaN == [nan |-> TRUE]
Infinity(sign) == [inf |-> sign]
Null == [null |-> TRUE]
Undefined == [undef |-> TRUE]

\* how a call ends: with the value it returns, or with the TypeError it throws
Returned(value) == [returned |-> value]
TypeError == [threw |-> "TypeError"]

IsString(v) == "str" \in DOMAIN v
IsNumber(v) ==
    "num" \in DOMAIN v \/ "big" \in DOMAIN v \/ "nan" \in DOMAIN v \/ "inf" \in DOMAIN v
IsArray(v) == "arr" \in DOMAIN v
IsObject(v) == "obj" \in DOMAIN v

typeof(v) ==
    IF IsString(v) THEN "string"
    ELSE IF IsNumber(v) THEN "number"
    ELSE IF v = Undefined THEN "undefined"
    ELSE "object"

\* !value
Falsy(v) ==
    v = Undefined \/ v = Null \/ v = NaN \/ v = Str(<<>>) \/ v = Num(0)

\* value ?? fallback
Nullish(v, fallback) == IF v = Undefined \/ v = Null THEN fallback ELSE v

\* value[key] for a plain data value
Get(v, key) ==
    IF IsObject(v) /\ key \in DOMAIN v.obj THEN v.obj[key] ELSE Undefined

\* Object.values(value)
ObjectValues(v) ==
    IF IsObject(v) THEN {v.obj[k] : k \in DOMAIN v.obj}
    ELSE IF IsArray(v) THEN {v.arr[i] : i \in DOMAIN v.arr}
    ELSE {}

----------------------------------------------------------------------------
(* Characters *)

Digits == {"0", "1", "2", "3", "4", "5", "6", "7", "8", "9"}
LowerLetters ==
    {"a", "b", "c", "d", "e", "f", "g", "h", "i", "j", "k", "l", "m",
     "n", "o", "p", "q", "r", "s", "t", "u", "v", "w", "x", "y", "z"}
HexLetters == {"a", "b", "c", "d", "e", "f", "A", "B", "C", "D", "E", "F"}

\* A code unit that a string of this file cannot hold is written by its name,
\* "U+2028" for the line separator; such a name is one code unit.  The code
\* units that a string holds but shows as nothing (the vertical tab, the
\* no-break space, the soft hyphen, U+1680 and U+FEFF) stand in the sets below
\* both as themselves and by their names.

\* \s of a regular expression, which is also what String.prototype.trim takes
\* off and what parseFloat skips in front: the white space (tab, vertical
\* tab, form feed, space, no-break space, U+FEFF and the space separators)
\* and the line terminators (line feed, carriage return, U+2028, U+2029)
Whitespace ==
    {" ", "\t", "\n", "\r", "\f", "", " ", "﻿", " ",
     "U+000B", "U+00A0", "U+FEFF", "U+1680",
     "U+2000", "U+2001", "U+2002", "U+2003", "U+2004", "U+2005", "U+2006",
     "U+2007", "U+2008", "U+2009", "U+200A", "U+2028", "U+2029", "U+202F",
     "U+205F", "U+3000"}

\* s[i..j] consists of whitespace only (\s*)
AllWhitespace(s, i, j) == \A x \in i..j : s[x] \in Whitespace

\* A code unit stands in a string as itself where a string of this file can
\* hold it, and a code unit from U+0080 on also by its name: "Σ" and "U+03A3"
\* are both the capital sigma, "U+0100" alone is the capital A with a macron,
\* and toLowerCase answers in the form it is asked in.  A code point above
\* U+FFFF is its pair of surrogates, each by its name.
\* The tables are those of Unicode 17.0, the letters that the engines of
\* Node.js 20 and 22 know; an older engine knows fewer (Node.js 16 those of
\* Unicode 14.0, Node.js 18 those of Unicode 15.0), and the repository names
\* no engine.  UpperCase[k] is lowered to LowerCase[k], and UpperCasePairs[k]
\* to LowerCasePairs[k].
UpperCase ==
    <<"A", "B", "C", "D", "E", "F", "G", "H", "I", "J", "K", "L", "M", "N", "O",
     "P", "Q", "R", "S", "T", "U", "V", "W", "X", "Y", "Z", "À", "U+00C0", "Á",
     "U+00C1", "Â", "U+00C2", "Ã", "U+00C3", "Ä", "U+00C4", "Å", "U+00C5", "Æ",
     "U+00C6", "Ç", "U+00C7", "È", "U+00C8", "É", "U+00C9", "Ê", "U+00CA", "Ë",
     "U+00CB", "Ì", "U+00CC", "Í", "U+00CD", "Î", "U+00CE", "Ï", "U+00CF", "Ð",
     "U+00D0", "Ñ", "U+00D1", "Ò", "U+00D2", "Ó", "U+00D3", "Ô", "U+00D4", "Õ",
     "U+00D5", "Ö", "U+00D6", "Ø", "U+00D8", "Ù", "U+00D9", "Ú", "U+00DA", "Û",
     "U+00DB", "Ü", "U+00DC", "Ý", "U+00DD", "Þ", "U+00DE", "U+0100", "U+0102",
     "U+0104", "U+0106", "U+0108", "U+010A", "U+010C", "U+010E", "U+0110",
     "U+0112", "U+0114", "U+0116", "U+0118", "U+011A", "U+011C", "U+011E",
     "U+0120", "U+0122", "U+0124", "U+0126", "U+0128", "U+012A", "U+012C",
     "U+012E", "U+0132", "U+0134", "U+0136", "U+0139", "U+013B", "U+013D",
     "U+013F", "U+0141", "U+0143", "U+0145", "U+0147", "U+014A", "U+014C",
     "U+014E", "U+0150", "U+0152", "U+0154", "U+0156", "U+0158", "U+015A",
     "U+015C", "U+015E", "U+0160", "U+0162", "U+0164", "U+0166", "U+0168",
     "U+016A", "U+016C", "U+016E", "U+0170", "U+0172", "U+0174", "U+0176",
     "U+0178", "U+0179", "U+017B", "U+017D", "Ɓ", "U+0181", "Ƃ", "U+0182", "Ƅ",
     "U+0184", "Ɔ", "U+0186", "Ƈ", "U+0187", "Ɖ", "U+0189", "Ɗ", "U+018A", "Ƌ",
     "U+018B", "Ǝ", "U+018E", "Ə", "U+018F", "Ɛ", "U+0190", "Ƒ", "U+0191", "Ɠ",
     "U+0193", "Ɣ", "U+0194", "Ɩ", "U+0196", "Ɨ", "U+0197", "Ƙ", "U+0198", "Ɯ",
     "U+019C", "Ɲ", "U+019D", "Ɵ", "U+019F", "Ơ", "U+01A0", "Ƣ", "U+01A2", "Ƥ",
     "U+01A4", "Ʀ", "U+01A6", "Ƨ", "U+01A7", "Ʃ", "U+01A9", "Ƭ", "U+01AC", "Ʈ",
     "U+01AE", "Ư", "U+01AF", "Ʊ", "U+01B1", "Ʋ", "U+01B2", "Ƴ", "U+01B3", "Ƶ",
     "U+01B5", "Ʒ", "U+01B7", "Ƹ", "U+01B8", "Ƽ", "U+01BC", "Ǆ", "U+01C4", "ǅ",
     "U+01C5", "Ǉ", "U+01C7", "ǈ", "U+01C8", "Ǌ", "U+01CA", "ǋ", "U+01CB", "Ǎ",
     "U+01CD", "Ǐ", "U+01CF", "Ǒ", "U+01D1", "Ǔ", "U+01D3", "Ǖ", "U+01D5", "Ǘ",
     "U+01D7", "Ǚ", "U+01D9", "Ǜ", "U+01DB", "Ǟ", "U+01DE", "Ǡ", "U+01E0", "Ǣ",
     "U+01E2", "Ǥ", "U+01E4", "Ǧ", "U+01E6", "Ǩ", "U+01E8", "Ǫ", "U+01EA", "Ǭ",
     "U+01EC", "Ǯ", "U+01EE", "Ǳ", "U+01F1", "ǲ", "U+01F2", "Ǵ", "U+01F4", "Ƕ",
     "U+01F6", "Ƿ", "U+01F7", "Ǹ", "U+01F8", "Ǻ", "U+01FA", "Ǽ", "U+01FC", "Ǿ",
     "U+01FE", "U+0200", "U+0202", "U+0204", "U+0206", "U+0208", "U+020A",
     "U+020C", "U+020E", "U+0210", "U+0212", "U+0214", "U+0216", "U+0218",
     "U+021A", "U+021C", "U+021E", "U+0220", "U+0222", "U+0224", "U+0226",
     "U+0228", "U+022A", "U+022C", "U+022E", "U+0230", "U+0232", "U+023A",
     "U+023B", "U+023D", "U+023E", "U+0241", "U+0243", "U+0244", "U+0245",
     "U+0246", "U+0248", "U+024A", "U+024C", "U+024E", "U+0370", "U+0372",
     "U+0376", "U+037F", "Ά", "U+0386", "Έ", "U+0388", "Ή", "U+0389", "Ί",
     "U+038A", "Ό", "U+038C", "Ύ", "U+038E", "Ώ", "U+038F", "Α", "U+0391", "Β",
     "U+0392", "Γ", "U+0393", "Δ", "U+0394", "Ε", "U+0395", "Ζ", "U+0396", "Η",
     "U+0397", "Θ", "U+0398", "Ι", "U+0399", "Κ", "U+039A", "Λ", "U+039B", "Μ",
     "U+039C", "Ν", "U+039D", "Ξ", "U+039E", "Ο", "U+039F", "Π", "U+03A0", "Ρ",
     "U+03A1", "Τ", "U+03A4", "Υ", "U+03A5", "Φ", "U+03A6", "Χ", "U+03A7", "Ψ",
     "U+03A8", "Ω", "U+03A9", "Ϊ", "U+03AA", "Ϋ", "U+03AB", "Ϗ", "U+03CF", "Ϙ",
     "U+03D8", "Ϛ", "U+03DA", "Ϝ", "U+03DC", "Ϟ", "U+03DE", "Ϡ", "U+03E0", "Ϣ",
     "U+03E2", "Ϥ", "U+03E4", "Ϧ", "U+03E6", "Ϩ", "U+03E8", "Ϫ", "U+03EA", "Ϭ",
     "U+03EC", "Ϯ", "U+03EE", "ϴ", "U+03F4", "Ϸ", "U+03F7", "Ϲ", "U+03F9", "Ϻ",
     "U+03FA", "Ͻ", "U+03FD", "Ͼ", "U+03FE", "Ͽ", "U+03FF", "U+0400", "U+0401",
     "U+0402", "U+0403", "U+0404", "U+0405", "U+0406", "U+0407", "U+0408",
     "U+0409", "U+040A", "U+040B", "U+040C", "U+040D", "U+040E", "U+040F",
     "U+0410", "U+0411", "U+0412", "U+0413", "U+0414", "U+0415", "U+0416",
     "U+0417", "U+0418", "U+0419", "U+041A", "U+041B", "U+041C", "U+041D",
     "U+041E", "U+041F", "U+0420", "U+0421", "U+0422", "U+0423", "U+0424",
     "U+0425", "U+0426", "U+0427", "U+0428", "U+0429", "U+042A", "U+042B",
     "U+042C", "U+042D", "U+042E", "U+042F", "U+0460", "U+0462", "U+0464",
     "U+0466", "U+0468", "U+046A", "U+046C", "U+046E", "U+0470", "U+0472",
     "U+0474", "U+0476", "U+0478", "U+047A", "U+047C", "U+047E", "Ҁ", "U+0480",
     "Ҋ", "U+048A", "Ҍ", "U+048C", "Ҏ", "U+048E", "Ґ", "U+0490", "Ғ", "U+0492",
     "Ҕ", "U+0494", "Җ", "U+0496", "Ҙ", "U+0498", "Қ", "U+049A", "Ҝ", "U+049C",
     "Ҟ", "U+049E", "Ҡ", "U+04A0", "Ң", "U+04A2", "Ҥ", "U+04A4", "Ҧ", "U+04A6",
     "Ҩ", "U+04A8", "Ҫ", "U+04AA", "Ҭ", "U+04AC", "Ү", "U+04AE", "Ұ", "U+04B0",
     "Ҳ", "U+04B2", "Ҵ", "U+04B4", "Ҷ", "U+04B6", "Ҹ", "U+04B8", "Һ", "U+04BA",
     "Ҽ", "U+04BC", "Ҿ", "U+04BE", "Ӏ", "U+04C0", "Ӂ", "U+04C1", "Ӄ", "U+04C3",
     "Ӆ", "U+04C5", "Ӈ", "U+04C7", "Ӊ", "U+04C9", "Ӌ", "U+04CB", "Ӎ", "U+04CD",
     "Ӑ", "U+04D0", "Ӓ", "U+04D2", "Ӕ", "U+04D4", "Ӗ", "U+04D6", "Ә", "U+04D8",
     "Ӛ", "U+04DA", "Ӝ", "U+04DC", "Ӟ", "U+04DE", "Ӡ", "U+04E0", "Ӣ", "U+04E2",
     "Ӥ", "U+04E4", "Ӧ", "U+04E6", "Ө", "U+04E8", "Ӫ", "U+04EA", "Ӭ", "U+04EC",
     "Ӯ", "U+04EE", "Ӱ", "U+04F0", "Ӳ", "U+04F2", "Ӵ", "U+04F4", "Ӷ", "U+04F6",
     "Ӹ", "U+04F8", "Ӻ", "U+04FA", "Ӽ", "U+04FC", "Ӿ", "U+04FE", "U+0500",
     "U+0502", "U+0504", "U+0506", "U+0508", "U+050A", "U+050C", "U+050E",
     "U+0510", "U+0512", "U+0514", "U+0516", "U+0518", "U+051A", "U+051C",
     "U+051E", "U+0520", "U+0522", "U+0524", "U+0526", "U+0528", "U+052A",
     "U+052C", "U+052E", "U+0531", "U+0532", "U+0533", "U+0534", "U+0535",
     "U+0536", "U+0537", "U+0538", "U+0539", "U+053A", "U+053B", "U+053C",
     "U+053D", "U+053E", "U+053F", "U+0540", "U+0541", "U+0542", "U+0543",
     "U+0544", "U+0545", "U+0546", "U+0547", "U+0548", "U+0549", "U+054A",
     "U+054B", "U+054C", "U+054D", "U+054E", "U+054F", "U+0550", "U+0551",
     "U+0552", "U+0553", "U+0554", "U+0555", "U+0556", "Ⴀ", "U+10A0", "Ⴁ",
     "U+10A1", "Ⴂ", "U+10A2", "Ⴃ", "U+10A3", "Ⴄ", "U+10A4", "Ⴅ", "U+10A5", "Ⴆ",
     "U+10A6", "Ⴇ", "U+10A7", "Ⴈ", "U+10A8", "Ⴉ", "U+10A9", "Ⴊ", "U+10AA", "Ⴋ",
     "U+10AB", "Ⴌ", "U+10AC", "Ⴍ", "U+10AD", "Ⴎ", "U+10AE", "Ⴏ", "U+10AF", "Ⴐ",
     "U+10B0", "Ⴑ", "U+10B1", "Ⴒ", "U+10B2", "Ⴓ", "U+10B3", "Ⴔ", "U+10B4", "Ⴕ",
     "U+10B5", "Ⴖ", "U+10B6", "Ⴗ", "U+10B7", "Ⴘ", "U+10B8", "Ⴙ", "U+10B9", "Ⴚ",
     "U+10BA", "Ⴛ", "U+10BB", "Ⴜ", "U+10BC", "Ⴝ", "U+10BD", "Ⴞ", "U+10BE", "Ⴟ",
     "U+10BF", "Ⴠ", "U+10C0", "Ⴡ", "U+10C1", "Ⴢ", "U+10C2", "Ⴣ", "U+10C3", "Ⴤ",
     "U+10C4", "Ⴥ", "U+10C5", "Ⴧ", "U+10C7", "Ⴭ", "U+10CD", "Ꭰ", "U+13A0", "Ꭱ",
     "U+13A1", "Ꭲ", "U+13A2", "Ꭳ", "U+13A3", "Ꭴ", "U+13A4", "Ꭵ", "U+13A5", "Ꭶ",
     "U+13A6", "Ꭷ", "U+13A7", "Ꭸ", "U+13A8", "Ꭹ", "U+13A9", "Ꭺ", "U+13AA", "Ꭻ",
     "U+13AB", "Ꭼ", "U+13AC", "Ꭽ", "U+13AD", "Ꭾ", "U+13AE", "Ꭿ", "U+13AF", "Ꮀ",
     "U+13B0", "Ꮁ", "U+13B1", "Ꮂ", "U+13B2", "Ꮃ", "U+13B3", "Ꮄ", "U+13B4", "Ꮅ",
     "U+13B5", "Ꮆ", "U+13B6", "Ꮇ", "U+13B7", "Ꮈ", "U+13B8", "Ꮉ", "U+13B9", "Ꮊ",
     "U+13BA", "Ꮋ", "U+13BB", "Ꮌ", "U+13BC", "Ꮍ", "U+13BD", "Ꮎ", "U+13BE", "Ꮏ",
     "U+13BF", "Ꮐ", "U+13C0", "Ꮑ", "U+13C1", "Ꮒ", "U+13C2", "Ꮓ", "U+13C3", "Ꮔ",
     "U+13C4", "Ꮕ", "U+13C5", "Ꮖ", "U+13C6", "Ꮗ", "U+13C7", "Ꮘ", "U+13C8", "Ꮙ",
     "U+13C9", "Ꮚ", "U+13CA", "Ꮛ", "U+13CB", "Ꮜ", "U+13CC", "Ꮝ", "U+13CD", "Ꮞ",
     "U+13CE", "Ꮟ", "U+13CF", "Ꮠ", "U+13D0", "Ꮡ", "U+13D1", "Ꮢ", "U+13D2", "Ꮣ",
     "U+13D3", "Ꮤ", "U+13D4", "Ꮥ", "U+13D5", "Ꮦ", "U+13D6", "Ꮧ", "U+13D7", "Ꮨ",
     "U+13D8", "Ꮩ", "U+13D9", "Ꮪ", "U+13DA", "Ꮫ", "U+13DB", "Ꮬ", "U+13DC", "Ꮭ",
     "U+13DD", "Ꮮ", "U+13DE", "Ꮯ", "U+13DF", "Ꮰ", "U+13E0", "Ꮱ", "U+13E1", "Ꮲ",
     "U+13E2", "Ꮳ", "U+13E3", "Ꮴ", "U+13E4", "Ꮵ", "U+13E5", "Ꮶ", "U+13E6", "Ꮷ",
     "U+13E7", "Ꮸ", "U+13E8", "Ꮹ", "U+13E9", "Ꮺ", "U+13EA", "Ꮻ", "U+13EB", "Ꮼ",
     "U+13EC", "Ꮽ", "U+13ED", "Ꮾ", "U+13EE", "Ꮿ", "U+13EF", "Ᏸ", "U+13F0", "Ᏹ",
     "U+13F1", "Ᏺ", "U+13F2", "Ᏻ", "U+13F3", "Ᏼ", "U+13F4", "Ᏽ", "U+13F5", "Ᲊ",
     "U+1C89", "Ა", "U+1C90", "Ბ", "U+1C91", "Გ", "U+1C92", "Დ", "U+1C93", "Ე",
     "U+1C94", "Ვ", "U+1C95", "Ზ", "U+1C96", "Თ", "U+1C97", "Ი", "U+1C98", "Კ",
     "U+1C99", "Ლ", "U+1C9A", "Მ", "U+1C9B", "Ნ", "U+1C9C", "Ო", "U+1C9D", "Პ",
     "U+1C9E", "Ჟ", "U+1C9F", "Რ", "U+1CA0", "Ს", "U+1CA1", "Ტ", "U+1CA2", "Უ",
     "U+1CA3", "Ფ", "U+1CA4", "Ქ", "U+1CA5", "Ღ", "U+1CA6", "Ყ", "U+1CA7", "Შ",
     "U+1CA8", "Ჩ", "U+1CA9", "Ც", "U+1CAA", "Ძ", "U+1CAB", "Წ", "U+1CAC", "Ჭ",
     "U+1CAD", "Ხ", "U+1CAE", "Ჯ", "U+1CAF", "Ჰ", "U+1CB0", "Ჱ", "U+1CB1", "Ჲ",
     "U+1CB2", "Ჳ", "U+1CB3", "Ჴ", "U+1CB4", "Ჵ", "U+1CB5", "Ჶ", "U+1CB6", "Ჷ",
     "U+1CB7", "Ჸ", "U+1CB8", "Ჹ", "U+1CB9", "Ჺ", "U+1CBA", "Ჽ", "U+1CBD", "Ჾ",
     "U+1CBE", "Ჿ", "U+1CBF", "U+1E00", "U+1E02", "U+1E04", "U+1E06", "U+1E08",
     "U+1E0A", "U+1E0C", "U+1E0E", "U+1E10", "U+1E12", "U+1E14", "U+1E16",
     "U+1E18", "U+1E1A", "U+1E1C", "U+1E1E", "U+1E20", "U+1E22", "U+1E24",
     "U+1E26", "U+1E28", "U+1E2A", "U+1E2C", "U+1E2E", "U+1E30", "U+1E32",
     "U+1E34", "U+1E36", "U+1E38", "U+1E3A", "U+1E3C", "U+1E3E", "U+1E40",
     "U+1E42", "U+1E44", "U+1E46", "U+1E48", "U+1E4A", "U+1E4C", "U+1E4E",
     "U+1E50", "U+1E52", "U+1E54", "U+1E56", "U+1E58", "U+1E5A", "U+1E5C",
     "U+1E5E", "U+1E60", "U+1E62", "U+1E64", "U+1E66", "U+1E68", "U+1E6A",
     "U+1E6C", "U+1E6E", "U+1E70", "U+1E72", "U+1E74", "U+1E76", "U+1E78",
     "U+1E7A", "U+1E7C", "U+1E7E", "Ẁ", "U+1E80", "Ẃ", "U+1E82", "Ẅ", "U+1E84",
     "Ẇ", "U+1E86", "Ẉ", "U+1E88", "Ẋ", "U+1E8A", "Ẍ", "U+1E8C", "Ẏ", "U+1E8E",
     "Ẑ", "U+1E90", "Ẓ", "U+1E92", "Ẕ", "U+1E94", "ẞ", "U+1E9E", "Ạ", "U+1EA0",
     "Ả", "U+1EA2", "Ấ", "U+1EA4", "Ầ", "U+1EA6", "Ẩ", "U+1EA8", "Ẫ", "U+1EAA",
     "Ậ", "U+1EAC", "Ắ", "U+1EAE", "Ằ", "U+1EB0", "Ẳ", "U+1EB2", "Ẵ", "U+1EB4",
     "Ặ", "U+1EB6", "Ẹ", "U+1EB8", "Ẻ", "U+1EBA", "Ẽ", "U+1EBC", "Ế", "U+1EBE",
     "Ề", "U+1EC0", "Ể", "U+1EC2", "Ễ", "U+1EC4", "Ệ", "U+1EC6", "Ỉ", "U+1EC8",
     "Ị", "U+1ECA", "Ọ", "U+1ECC", "Ỏ", "U+1ECE", "Ố", "U+1ED0", "Ồ", "U+1ED2",
     "Ổ", "U+1ED4", "Ỗ", "U+1ED6", "Ộ", "U+1ED8", "Ớ", "U+1EDA", "Ờ", "U+1EDC",
     "Ở", "U+1EDE", "Ỡ", "U+1EE0", "Ợ", "U+1EE2", "Ụ", "U+1EE4", "Ủ", "U+1EE6",
     "Ứ", "U+1EE8", "Ừ", "U+1EEA", "Ử", "U+1EEC", "Ữ", "U+1EEE", "Ự", "U+1EF0",
     "Ỳ", "U+1EF2", "Ỵ", "U+1EF4", "Ỷ", "U+1EF6", "Ỹ", "U+1EF8", "Ỻ", "U+1EFA",
     "Ỽ", "U+1EFC", "Ỿ", "U+1EFE", "U+1F08", "U+1F09", "U+1F0A", "U+1F0B",
     "U+1F0C", "U+1F0D", "U+1F0E", "U+1F0F", "U+1F18", "U+1F19", "U+1F1A",
     "U+1F1B", "U+1F1C", "U+1F1D", "U+1F28", "U+1F29", "U+1F2A", "U+1F2B",
     "U+1F2C", "U+1F2D", "U+1F2E", "U+1F2F", "U+1F38", "U+1F39", "U+1F3A",
     "U+1F3B", "U+1F3C", "U+1F3D", "U+1F3E", "U+1F3F", "U+1F48", "U+1F49",
     "U+1F4A", "U+1F4B", "U+1F4C", "U+1F4D", "U+1F59", "U+1F5B", "U+1F5D",
     "U+1F5F", "U+1F68", "U+1F69", "U+1F6A", "U+1F6B", "U+1F6C", "U+1F6D",
     "U+1F6E", "U+1F6F", "ᾈ", "U+1F88", "ᾉ", "U+1F89", "ᾊ", "U+1F8A", "ᾋ",
     "U+1F8B", "ᾌ", "U+1F8C", "ᾍ", "U+1F8D", "ᾎ", "U+1F8E", "ᾏ", "U+1F8F", "ᾘ",
     "U+1F98", "ᾙ", "U+1F99", "ᾚ", "U+1F9A", "ᾛ", "U+1F9B", "ᾜ", "U+1F9C", "ᾝ",
     "U+1F9D", "ᾞ", "U+1F9E", "ᾟ", "U+1F9F", "ᾨ", "U+1FA8", "ᾩ", "U+1FA9", "ᾪ",
     "U+1FAA", "ᾫ", "U+1FAB", "ᾬ", "U+1FAC", "ᾭ", "U+1FAD", "ᾮ", "U+1FAE", "ᾯ",
     "U+1FAF", "Ᾰ", "U+1FB8", "Ᾱ", "U+1FB9", "Ὰ", "U+1FBA", "Ά", "U+1FBB", "ᾼ",
     "U+1FBC", "Ὲ", "U+1FC8", "Έ", "U+1FC9", "Ὴ", "U+1FCA", "Ή", "U+1FCB", "ῌ",
     "U+1FCC", "Ῐ", "U+1FD8", "Ῑ", "U+1FD9", "Ὶ", "U+1FDA", "Ί", "U+1FDB", "Ῠ",
     "U+1FE8", "Ῡ", "U+1FE9", "Ὺ", "U+1FEA", "Ύ", "U+1FEB", "Ῥ", "U+1FEC", "Ὸ",
     "U+1FF8", "Ό", "U+1FF9", "Ὼ", "U+1FFA", "Ώ", "U+1FFB", "ῼ", "U+1FFC",
     "U+2126", "U+212A", "U+212B", "U+2132", "U+2160", "U+2161", "U+2162",
     "U+2163", "U+2164", "U+2165", "U+2166", "U+2167", "U+2168", "U+2169",
     "U+216A", "U+216B", "U+216C", "U+216D", "U+216E", "U+216F", "Ↄ", "U+2183",
     "Ⓐ", "U+24B6", "Ⓑ", "U+24B7", "Ⓒ", "U+24B8", "Ⓓ", "U+24B9", "Ⓔ", "U+24BA",
     "Ⓕ", "U+24BB", "Ⓖ", "U+24BC", "Ⓗ", "U+24BD", "Ⓘ", "U+24BE", "Ⓙ", "U+24BF",
     "Ⓚ", "U+24C0", "Ⓛ", "U+24C1", "Ⓜ", "U+24C2", "Ⓝ", "U+24C3", "Ⓞ", "U+24C4",
     "Ⓟ", "U+24C5", "Ⓠ", "U+24C6", "Ⓡ", "U+24C7", "Ⓢ", "U+24C8", "Ⓣ", "U+24C9",
     "Ⓤ", "U+24CA", "Ⓥ", "U+24CB", "Ⓦ", "U+24CC", "Ⓧ", "U+24CD", "Ⓨ", "U+24CE",
     "Ⓩ", "U+24CF", "U+2C00", "U+2C01", "U+2C02", "U+2C03", "U+2C04", "U+2C05",
     "U+2C06", "U+2C07", "U+2C08", "U+2C09", "U+2C0A", "U+2C0B", "U+2C0C",
     "U+2C0D", "U+2C0E", "U+2C0F", "U+2C10", "U+2C11", "U+2C12", "U+2C13",
     "U+2C14", "U+2C15", "U+2C16", "U+2C17", "U+2C18", "U+2C19", "U+2C1A",
     "U+2C1B", "U+2C1C", "U+2C1D", "U+2C1E", "U+2C1F", "U+2C20", "U+2C21",
     "U+2C22", "U+2C23", "U+2C24", "U+2C25", "U+2C26", "U+2C27", "U+2C28",
     "U+2C29", "U+2C2A", "U+2C2B", "U+2C2C", "U+2C2D", "U+2C2E", "U+2C2F",
     "U+2C60", "U+2C62", "U+2C63", "U+2C64", "U+2C67", "U+2C69", "U+2C6B",
     "U+2C6D", "U+2C6E", "U+2C6F", "U+2C70", "U+2C72", "U+2C75", "U+2C7E",
     "U+2C7F", "Ⲁ", "U+2C80", "Ⲃ", "U+2C82", "Ⲅ", "U+2C84", "Ⲇ", "U+2C86", "Ⲉ",
     "U+2C88", "Ⲋ", "U+2C8A", "Ⲍ", "U+2C8C", "Ⲏ", "U+2C8E", "Ⲑ", "U+2C90", "Ⲓ",
     "U+2C92", "Ⲕ", "U+2C94", "Ⲗ", "U+2C96", "Ⲙ", "U+2C98", "Ⲛ", "U+2C9A", "Ⲝ",
     "U+2C9C", "Ⲟ", "U+2C9E", "Ⲡ", "U+2CA0", "Ⲣ", "U+2CA2", "Ⲥ", "U+2CA4", "Ⲧ",
     "U+2CA6", "Ⲩ", "U+2CA8", "Ⲫ", "U+2CAA", "Ⲭ", "U+2CAC", "Ⲯ", "U+2CAE", "Ⲱ",
     "U+2CB0", "Ⲳ", "U+2CB2", "Ⲵ", "U+2CB4", "Ⲷ", "U+2CB6", "Ⲹ", "U+2CB8", "Ⲻ",
     "U+2CBA", "Ⲽ", "U+2CBC", "Ⲿ", "U+2CBE", "Ⳁ", "U+2CC0", "Ⳃ", "U+2CC2", "Ⳅ",
     "U+2CC4", "Ⳇ", "U+2CC6", "Ⳉ", "U+2CC8", "Ⳋ", "U+2CCA", "Ⳍ", "U+2CCC", "Ⳏ",
     "U+2CCE", "Ⳑ", "U+2CD0", "Ⳓ", "U+2CD2", "Ⳕ", "U+2CD4", "Ⳗ", "U+2CD6", "Ⳙ",
     "U+2CD8", "Ⳛ", "U+2CDA", "Ⳝ", "U+2CDC", "Ⳟ", "U+2CDE", "Ⳡ", "U+2CE0", "Ⳣ",
     "U+2CE2", "Ⳬ", "U+2CEB", "Ⳮ", "U+2CED", "Ⳳ", "U+2CF2", "U+A640", "U+A642",
     "U+A644", "U+A646", "U+A648", "U+A64A", "U+A64C", "U+A64E", "U+A650",
     "U+A652", "U+A654", "U+A656", "U+A658", "U+A65A", "U+A65C", "U+A65E",
     "U+A660", "U+A662", "U+A664", "U+A666", "U+A668", "U+A66A", "U+A66C", "Ꚁ",
     "U+A680", "Ꚃ", "U+A682", "Ꚅ", "U+A684", "Ꚇ", "U+A686", "Ꚉ", "U+A688", "Ꚋ",
     "U+A68A", "Ꚍ", "U+A68C", "Ꚏ", "U+A68E", "Ꚑ", "U+A690", "Ꚓ", "U+A692", "Ꚕ",
     "U+A694", "Ꚗ", "U+A696", "Ꚙ", "U+A698", "Ꚛ", "U+A69A", "U+A722", "U+A724",
     "U+A726", "U+A728", "U+A72A", "U+A72C", "U+A72E", "U+A732", "U+A734",
     "U+A736", "U+A738", "U+A73A", "U+A73C", "U+A73E", "U+A740", "U+A742",
     "U+A744", "U+A746", "U+A748", "U+A74A", "U+A74C", "U+A74E", "U+A750",
     "U+A752", "U+A754", "U+A756", "U+A758", "U+A75A", "U+A75C", "U+A75E",
     "U+A760", "U+A762", "U+A764", "U+A766", "U+A768", "U+A76A", "U+A76C",
     "U+A76E", "U+A779", "U+A77B", "U+A77D", "U+A77E", "Ꞁ", "U+A780", "Ꞃ",
     "U+A782", "Ꞅ", "U+A784", "Ꞇ", "U+A786", "Ꞌ", "U+A78B", "Ɥ", "U+A78D", "Ꞑ",
     "U+A790", "Ꞓ", "U+A792", "Ꞗ", "U+A796", "Ꞙ", "U+A798", "Ꞛ", "U+A79A", "Ꞝ",
     "U+A79C", "Ꞟ", "U+A79E", "Ꞡ", "U+A7A0", "Ꞣ", "U+A7A2", "Ꞥ", "U+A7A4", "Ꞧ",
     "U+A7A6", "Ꞩ", "U+A7A8", "Ɦ", "U+A7AA", "Ɜ", "U+A7AB", "Ɡ", "U+A7AC", "Ɬ",
     "U+A7AD", "Ɪ", "U+A7AE", "Ʞ", "U+A7B0", "Ʇ", "U+A7B1", "Ʝ", "U+A7B2", "Ꭓ",
     "U+A7B3", "Ꞵ", "U+A7B4", "Ꞷ", "U+A7B6", "Ꞹ", "U+A7B8", "Ꞻ", "U+A7BA", "Ꞽ",
     "U+A7BC", "Ꞿ", "U+A7BE", "Ꟁ", "U+A7C0", "Ꟃ", "U+A7C2", "Ꞔ", "U+A7C4", "Ʂ",
     "U+A7C5", "Ᶎ", "U+A7C6", "Ꟈ", "U+A7C7", "Ꟊ", "U+A7C9", "Ɤ", "U+A7CB", "Ꟍ",
     "U+A7CC", "꟎", "U+A7CE", "Ꟑ", "U+A7D0", "꟒", "U+A7D2", "꟔", "U+A7D4", "Ꟗ",
     "U+A7D6", "Ꟙ", "U+A7D8", "Ꟛ", "U+A7DA", "Ƛ", "U+A7DC", "Ꟶ", "U+A7F5",
     "U+FF21", "U+FF22", "U+FF23", "U+FF24", "U+FF25", "U+FF26", "U+FF27",
     "U+FF28", "U+FF29", "U+FF2A", "U+FF2B", "U+FF2C", "U+FF2D", "U+FF2E",
     "U+FF2F", "U+FF30", "U+FF31", "U+FF32", "U+FF33", "U+FF34", "U+FF35",
     "U+FF36", "U+FF37", "U+FF38", "U+FF39", "U+FF3A">>

LowerCase ==
    <<"a", "b", "c", "d", "e", "f", "g", "h", "i", "j", "k", "l", "m", "n", "o",
     "p", "q", "r", "s", "t", "u", "v", "w", "x", "y", "z", "à", "U+00E0", "á",
     "U+00E1", "â", "U+00E2", "ã", "U+00E3", "ä", "U+00E4", "å", "U+00E5", "æ",
     "U+00E6", "ç", "U+00E7", "è", "U+00E8", "é", "U+00E9", "ê", "U+00EA", "ë",
     "U+00EB", "ì", "U+00EC", "í", "U+00ED", "î", "U+00EE", "ï", "U+00EF", "ð",
     "U+00F0", "ñ", "U+00F1", "ò", "U+00F2", "ó", "U+00F3", "ô", "U+00F4", "õ",
     "U+00F5", "ö", "U+00F6", "ø", "U+00F8", "ù", "U+00F9", "ú", "U+00FA", "û",
     "U+00FB", "ü", "U+00FC", "ý", "U+00FD", "þ", "U+00FE", "U+0101", "U+0103",
     "U+0105", "U+0107", "U+0109", "U+010B", "U+010D", "U+010F", "U+0111",
     "U+0113", "U+0115", "U+0117", "U+0119", "U+011B", "U+011D", "U+011F",
     "U+0121", "U+0123", "U+0125", "U+0127", "U+0129", "U+012B", "U+012D",
     "U+012F", "U+0133", "U+0135", "U+0137", "U+013A", "U+013C", "U+013E",
     "U+0140", "U+0142", "U+0144", "U+0146", "U+0148", "U+014B", "U+014D",
     "U+014F", "U+0151", "U+0153", "U+0155", "U+0157", "U+0159", "U+015B",
     "U+015D", "U+015F", "U+0161", "U+0163", "U+0165", "U+0167", "U+0169",
     "U+016B", "U+016D", "U+016F", "U+0171", "U+0173", "U+0175", "U+0177",
     "U+00FF", "U+017A", "U+017C", "U+017E", "U+0253", "U+0253", "ƃ", "U+0183",
     "ƅ", "U+0185", "U+0254", "U+0254", "ƈ", "U+0188", "U+0256", "U+0256",
     "U+0257", "U+0257", "ƌ", "U+018C", "ǝ", "U+01DD", "U+0259", "U+0259",
     "U+025B", "U+025B", "ƒ", "U+0192", "U+0260", "U+0260", "U+0263", "U+0263",
     "U+0269", "U+0269", "U+0268", "U+0268", "ƙ", "U+0199", "U+026F", "U+026F",
     "U+0272", "U+0272", "U+0275", "U+0275", "ơ", "U+01A1", "ƣ", "U+01A3", "ƥ",
     "U+01A5", "ʀ", "U+0280", "ƨ", "U+01A8", "ʃ", "U+0283", "ƭ", "U+01AD", "ʈ",
     "U+0288", "ư", "U+01B0", "ʊ", "U+028A", "ʋ", "U+028B", "ƴ", "U+01B4", "ƶ",
     "U+01B6", "ʒ", "U+0292", "ƹ", "U+01B9", "ƽ", "U+01BD", "ǆ", "U+01C6", "ǆ",
     "U+01C6", "ǉ", "U+01C9", "ǉ", "U+01C9", "ǌ", "U+01CC", "ǌ", "U+01CC", "ǎ",
     "U+01CE", "ǐ", "U+01D0", "ǒ", "U+01D2", "ǔ", "U+01D4", "ǖ", "U+01D6", "ǘ",
     "U+01D8", "ǚ", "U+01DA", "ǜ", "U+01DC", "ǟ", "U+01DF", "ǡ", "U+01E1", "ǣ",
     "U+01E3", "ǥ", "U+01E5", "ǧ", "U+01E7", "ǩ", "U+01E9", "ǫ", "U+01EB", "ǭ",
     "U+01ED", "ǯ", "U+01EF", "ǳ", "U+01F3", "ǳ", "U+01F3", "ǵ", "U+01F5", "ƕ",
     "U+0195", "ƿ", "U+01BF", "ǹ", "U+01F9", "ǻ", "U+01FB", "ǽ", "U+01FD", "ǿ",
     "U+01FF", "U+0201", "U+0203", "U+0205", "U+0207", "U+0209", "U+020B",
     "U+020D", "U+020F", "U+0211", "U+0213", "U+0215", "U+0217", "U+0219",
     "U+021B", "U+021D", "U+021F", "U+019E", "U+0223", "U+0225", "U+0227",
     "U+0229", "U+022B", "U+022D", "U+022F", "U+0231", "U+0233", "U+2C65",
     "U+023C", "U+019A", "U+2C66", "U+0242", "U+0180", "U+0289", "U+028C",
     "U+0247", "U+0249", "U+024B", "U+024D", "U+024F", "U+0371", "U+0373",
     "U+0377", "U+03F3", "ά", "U+03AC", "έ", "U+03AD", "ή", "U+03AE", "ί",
     "U+03AF", "ό", "U+03CC", "ύ", "U+03CD", "ώ", "U+03CE", "α", "U+03B1", "β",
     "U+03B2", "γ", "U+03B3", "δ", "U+03B4", "ε", "U+03B5", "ζ", "U+03B6", "η",
     "U+03B7", "θ", "U+03B8", "ι", "U+03B9", "κ", "U+03BA", "λ", "U+03BB", "μ",
     "U+03BC", "ν", "U+03BD", "ξ", "U+03BE", "ο", "U+03BF", "π", "U+03C0", "ρ",
     "U+03C1", "τ", "U+03C4", "υ", "U+03C5", "φ", "U+03C6", "χ", "U+03C7", "ψ",
     "U+03C8", "ω", "U+03C9", "ϊ", "U+03CA", "ϋ", "U+03CB", "ϗ", "U+03D7", "ϙ",
     "U+03D9", "ϛ", "U+03DB", "ϝ", "U+03DD", "ϟ", "U+03DF", "ϡ", "U+03E1", "ϣ",
     "U+03E3", "ϥ", "U+03E5", "ϧ", "U+03E7", "ϩ", "U+03E9", "ϫ", "U+03EB", "ϭ",
     "U+03ED", "ϯ", "U+03EF", "θ", "U+03B8", "ϸ", "U+03F8", "ϲ", "U+03F2", "ϻ",
     "U+03FB", "U+037B", "U+037B", "U+037C", "U+037C", "U+037D", "U+037D",
     "U+0450", "U+0451", "U+0452", "U+0453", "U+0454", "U+0455", "U+0456",
     "U+0457", "U+0458", "U+0459", "U+045A", "U+045B", "U+045C", "U+045D",
     "U+045E", "U+045F", "U+0430", "U+0431", "U+0432", "U+0433", "U+0434",
     "U+0435", "U+0436", "U+0437", "U+0438", "U+0439", "U+043A", "U+043B",
     "U+043C", "U+043D", "U+043E", "U+043F", "U+0440", "U+0441", "U+0442",
     "U+0443", "U+0444", "U+0445", "U+0446", "U+0447", "U+0448", "U+0449",
     "U+044A", "U+044B", "U+044C", "U+044D", "U+044E", "U+044F", "U+0461",
     "U+0463", "U+0465", "U+0467", "U+0469", "U+046B", "U+046D", "U+046F",
     "U+0471", "U+0473", "U+0475", "U+0477", "U+0479", "U+047B", "U+047D",
     "U+047F", "ҁ", "U+0481", "ҋ", "U+048B", "ҍ", "U+048D", "ҏ", "U+048F", "ґ",
     "U+0491", "ғ", "U+0493", "ҕ", "U+0495", "җ", "U+0497", "ҙ", "U+0499", "қ",
     "U+049B", "ҝ", "U+049D", "ҟ", "U+049F", "ҡ", "U+04A1", "ң", "U+04A3", "ҥ",
     "U+04A5", "ҧ", "U+04A7", "ҩ", "U+04A9", "ҫ", "U+04AB", "ҭ", "U+04AD", "ү",
     "U+04AF", "ұ", "U+04B1", "ҳ", "U+04B3", "ҵ", "U+04B5", "ҷ", "U+04B7", "ҹ",
     "U+04B9", "һ", "U+04BB", "ҽ", "U+04BD", "ҿ", "U+04BF", "ӏ", "U+04CF", "ӂ",
     "U+04C2", "ӄ", "U+04C4", "ӆ", "U+04C6", "ӈ", "U+04C8", "ӊ", "U+04CA", "ӌ",
     "U+04CC", "ӎ", "U+04CE", "ӑ", "U+04D1", "ӓ", "U+04D3", "ӕ", "U+04D5", "ӗ",
     "U+04D7", "ә", "U+04D9", "ӛ", "U+04DB", "ӝ", "U+04DD", "ӟ", "U+04DF", "ӡ",
     "U+04E1", "ӣ", "U+04E3", "ӥ", "U+04E5", "ӧ", "U+04E7", "ө", "U+04E9", "ӫ",
     "U+04EB", "ӭ", "U+04ED", "ӯ", "U+04EF", "ӱ", "U+04F1", "ӳ", "U+04F3", "ӵ",
     "U+04F5", "ӷ", "U+04F7", "ӹ", "U+04F9", "ӻ", "U+04FB", "ӽ", "U+04FD", "ӿ",
     "U+04FF", "U+0501", "U+0503", "U+0505", "U+0507", "U+0509", "U+050B",
     "U+050D", "U+050F", "U+0511", "U+0513", "U+0515", "U+0517", "U+0519",
     "U+051B", "U+051D", "U+051F", "U+0521", "U+0523", "U+0525", "U+0527",
     "U+0529", "U+052B", "U+052D", "U+052F", "U+0561", "U+0562", "U+0563",
     "U+0564", "U+0565", "U+0566", "U+0567", "U+0568", "U+0569", "U+056A",
     "U+056B", "U+056C", "U+056D", "U+056E", "U+056F", "U+0570", "U+0571",
     "U+0572", "U+0573", "U+0574", "U+0575", "U+0576", "U+0577", "U+0578",
     "U+0579", "U+057A", "U+057B", "U+057C", "U+057D", "U+057E", "U+057F",
     "U+0580", "U+0581", "U+0582", "U+0583", "U+0584", "U+0585", "U+0586",
     "U+2D00", "U+2D00", "U+2D01", "U+2D01", "U+2D02", "U+2D02", "U+2D03",
     "U+2D03", "U+2D04", "U+2D04", "U+2D05", "U+2D05", "U+2D06", "U+2D06",
     "U+2D07", "U+2D07", "U+2D08", "U+2D08", "U+2D09", "U+2D09", "U+2D0A",
     "U+2D0A", "U+2D0B", "U+2D0B", "U+2D0C", "U+2D0C", "U+2D0D", "U+2D0D",
     "U+2D0E", "U+2D0E", "U+2D0F", "U+2D0F", "U+2D10", "U+2D10", "U+2D11",
     "U+2D11", "U+2D12", "U+2D12", "U+2D13", "U+2D13", "U+2D14", "U+2D14",
     "U+2D15", "U+2D15", "U+2D16", "U+2D16", "U+2D17", "U+2D17", "U+2D18",
     "U+2D18", "U+2D19", "U+2D19", "U+2D1A", "U+2D1A", "U+2D1B", "U+2D1B",
     "U+2D1C", "U+2D1C", "U+2D1D", "U+2D1D", "U+2D1E", "U+2D1E", "U+2D1F",
     "U+2D1F", "U+2D20", "U+2D20", "U+2D21", "U+2D21", "U+2D22", "U+2D22",
     "U+2D23", "U+2D23", "U+2D24", "U+2D24", "U+2D25", "U+2D25", "U+2D27",
     "U+2D27", "U+2D2D", "U+2D2D", "U+AB70", "U+AB70", "U+AB71", "U+AB71",
     "U+AB72", "U+AB72", "U+AB73", "U+AB73", "U+AB74", "U+AB74", "U+AB75",
     "U+AB75", "U+AB76", "U+AB76", "U+AB77", "U+AB77", "U+AB78", "U+AB78",
     "U+AB79", "U+AB79", "U+AB7A", "U+AB7A", "U+AB7B", "U+AB7B", "U+AB7C",
     "U+AB7C", "U+AB7D", "U+AB7D", "U+AB7E", "U+AB7E", "U+AB7F", "U+AB7F", "ꮀ",
     "U+AB80", "ꮁ", "U+AB81", "ꮂ", "U+AB82", "ꮃ", "U+AB83", "ꮄ", "U+AB84", "ꮅ",
     "U+AB85", "ꮆ", "U+AB86", "ꮇ", "U+AB87", "ꮈ", "U+AB88", "ꮉ", "U+AB89", "ꮊ",
     "U+AB8A", "ꮋ", "U+AB8B", "ꮌ", "U+AB8C", "ꮍ", "U+AB8D", "ꮎ", "U+AB8E", "ꮏ",
     "U+AB8F", "ꮐ", "U+AB90", "ꮑ", "U+AB91", "ꮒ", "U+AB92", "ꮓ", "U+AB93", "ꮔ",
     "U+AB94", "ꮕ", "U+AB95", "ꮖ", "U+AB96", "ꮗ", "U+AB97", "ꮘ", "U+AB98", "ꮙ",
     "U+AB99", "ꮚ", "U+AB9A", "ꮛ", "U+AB9B", "ꮜ", "U+AB9C", "ꮝ", "U+AB9D", "ꮞ",
     "U+AB9E", "ꮟ", "U+AB9F", "ꮠ", "U+ABA0", "ꮡ", "U+ABA1", "ꮢ", "U+ABA2", "ꮣ",
     "U+ABA3", "ꮤ", "U+ABA4", "ꮥ", "U+ABA5", "ꮦ", "U+ABA6", "ꮧ", "U+ABA7", "ꮨ",
     "U+ABA8", "ꮩ", "U+ABA9", "ꮪ", "U+ABAA", "ꮫ", "U+ABAB", "ꮬ", "U+ABAC", "ꮭ",
     "U+ABAD", "ꮮ", "U+ABAE", "ꮯ", "U+ABAF", "ꮰ", "U+ABB0", "ꮱ", "U+ABB1", "ꮲ",
     "U+ABB2", "ꮳ", "U+ABB3", "ꮴ", "U+ABB4", "ꮵ", "U+ABB5", "ꮶ", "U+ABB6", "ꮷ",
     "U+ABB7", "ꮸ", "U+ABB8", "ꮹ", "U+ABB9", "ꮺ", "U+ABBA", "ꮻ", "U+ABBB", "ꮼ",
     "U+ABBC", "ꮽ", "U+ABBD", "ꮾ", "U+ABBE", "ꮿ", "U+ABBF", "ᏸ", "U+13F8", "ᏹ",
     "U+13F9", "ᏺ", "U+13FA", "ᏻ", "U+13FB", "ᏼ", "U+13FC", "ᏽ", "U+13FD", "ᲊ",
     "U+1C8A", "ა", "U+10D0", "ბ", "U+10D1", "გ", "U+10D2", "დ", "U+10D3", "ე",
     "U+10D4", "ვ", "U+10D5", "ზ", "U+10D6", "თ", "U+10D7", "ი", "U+10D8", "კ",
     "U+10D9", "ლ", "U+10DA", "მ", "U+10DB", "ნ", "U+10DC", "ო", "U+10DD", "პ",
     "U+10DE", "ჟ", "U+10DF", "რ", "U+10E0", "ს", "U+10E1", "ტ", "U+10E2", "უ",
     "U+10E3", "ფ", "U+10E4", "ქ", "U+10E5", "ღ", "U+10E6", "ყ", "U+10E7", "შ",
     "U+10E8", "ჩ", "U+10E9", "ც", "U+10EA", "ძ", "U+10EB", "წ", "U+10EC", "ჭ",
     "U+10ED", "ხ", "U+10EE", "ჯ", "U+10EF", "ჰ", "U+10F0", "ჱ", "U+10F1", "ჲ",
     "U+10F2", "ჳ", "U+10F3", "ჴ", "U+10F4", "ჵ", "U+10F5", "ჶ", "U+10F6", "ჷ",
     "U+10F7", "ჸ", "U+10F8", "ჹ", "U+10F9", "ჺ", "U+10FA", "ჽ", "U+10FD", "ჾ",
     "U+10FE", "ჿ", "U+10FF", "U+1E01", "U+1E03", "U+1E05", "U+1E07", "U+1E09",
     "U+1E0B", "U+1E0D", "U+1E0F", "U+1E11", "U+1E13", "U+1E15", "U+1E17",
     "U+1E19", "U+1E1B", "U+1E1D", "U+1E1F", "U+1E21", "U+1E23", "U+1E25",
     "U+1E27", "U+1E29", "U+1E2B", "U+1E2D", "U+1E2F", "U+1E31", "U+1E33",
     "U+1E35", "U+1E37", "U+1E39", "U+1E3B", "U+1E3D", "U+1E3F", "U+1E41",
     "U+1E43", "U+1E45", "U+1E47", "U+1E49", "U+1E4B", "U+1E4D", "U+1E4F",
     "U+1E51", "U+1E53", "U+1E55", "U+1E57", "U+1E59", "U+1E5B", "U+1E5D",
     "U+1E5F", "U+1E61", "U+1E63", "U+1E65", "U+1E67", "U+1E69", "U+1E6B",
     "U+1E6D", "U+1E6F", "U+1E71", "U+1E73", "U+1E75", "U+1E77", "U+1E79",
     "U+1E7B", "U+1E7D", "U+1E7F", "ẁ", "U+1E81", "ẃ", "U+1E83", "ẅ", "U+1E85",
     "ẇ", "U+1E87", "ẉ", "U+1E89", "ẋ", "U+1E8B", "ẍ", "U+1E8D", "ẏ", "U+1E8F",
     "ẑ", "U+1E91", "ẓ", "U+1E93", "ẕ", "U+1E95", "ß", "U+00DF", "ạ", "U+1EA1",
     "ả", "U+1EA3", "ấ", "U+1EA5", "ầ", "U+1EA7", "ẩ", "U+1EA9", "ẫ", "U+1EAB",
     "ậ", "U+1EAD", "ắ", "U+1EAF", "ằ", "U+1EB1", "ẳ", "U+1EB3", "ẵ", "U+1EB5",
     "ặ", "U+1EB7", "ẹ", "U+1EB9", "ẻ", "U+1EBB", "ẽ", "U+1EBD", "ế", "U+1EBF",
     "ề", "U+1EC1", "ể", "U+1EC3", "ễ", "U+1EC5", "ệ", "U+1EC7", "ỉ", "U+1EC9",
     "ị", "U+1ECB", "ọ", "U+1ECD", "ỏ", "U+1ECF", "ố", "U+1ED1", "ồ", "U+1ED3",
     "ổ", "U+1ED5", "ỗ", "U+1ED7", "ộ", "U+1ED9", "ớ", "U+1EDB", "ờ", "U+1EDD",
     "ở", "U+1EDF", "ỡ", "U+1EE1", "ợ", "U+1EE3", "ụ", "U+1EE5", "ủ", "U+1EE7",
     "ứ", "U+1EE9", "ừ", "U+1EEB", "ử", "U+1EED", "ữ", "U+1EEF", "ự", "U+1EF1",
     "ỳ", "U+1EF3", "ỵ", "U+1EF5", "ỷ", "U+1EF7", "ỹ", "U+1EF9", "ỻ", "U+1EFB",
     "ỽ", "U+1EFD", "ỿ", "U+1EFF", "U+1F00", "U+1F01", "U+1F02", "U+1F03",
     "U+1F04", "U+1F05", "U+1F06", "U+1F07", "U+1F10", "U+1F11", "U+1F12",
     "U+1F13", "U+1F14", "U+1F15", "U+1F20", "U+1F21", "U+1F22", "U+1F23",
     "U+1F24", "U+1F25", "U+1F26", "U+1F27", "U+1F30", "U+1F31", "U+1F32",
     "U+1F33", "U+1F34", "U+1F35", "U+1F36", "U+1F37", "U+1F40", "U+1F41",
     "U+1F42", "U+1F43", "U+1F44", "U+1F45", "U+1F51", "U+1F53", "U+1F55",
     "U+1F57", "U+1F60", "U+1F61", "U+1F62", "U+1F63", "U+1F64", "U+1F65",
     "U+1F66", "U+1F67", "ᾀ", "U+1F80", "ᾁ", "U+1F81", "ᾂ", "U+1F82", "ᾃ",
     "U+1F83", "ᾄ", "U+1F84", "ᾅ", "U+1F85", "ᾆ", "U+1F86", "ᾇ", "U+1F87", "ᾐ",
     "U+1F90", "ᾑ", "U+1F91", "ᾒ", "U+1F92", "ᾓ", "U+1F93", "ᾔ", "U+1F94", "ᾕ",
     "U+1F95", "ᾖ", "U+1F96", "ᾗ", "U+1F97", "ᾠ", "U+1FA0", "ᾡ", "U+1FA1", "ᾢ",
     "U+1FA2", "ᾣ", "U+1FA3", "ᾤ", "U+1FA4", "ᾥ", "U+1FA5", "ᾦ", "U+1FA6", "ᾧ",
     "U+1FA7", "ᾰ", "U+1FB0", "ᾱ", "U+1FB1", "U+1F70", "U+1F70", "U+1F71",
     "U+1F71", "ᾳ", "U+1FB3", "U+1F72", "U+1F72", "U+1F73", "U+1F73", "U+1F74",
     "U+1F74", "U+1F75", "U+1F75", "ῃ", "U+1FC3", "ῐ", "U+1FD0", "ῑ", "U+1FD1",
     "U+1F76", "U+1F76", "U+1F77", "U+1F77", "ῠ", "U+1FE0", "ῡ", "U+1FE1",
     "U+1F7A", "U+1F7A", "U+1F7B", "U+1F7B", "ῥ", "U+1FE5", "U+1F78", "U+1F78",
     "U+1F79", "U+1F79", "U+1F7C", "U+1F7C", "U+1F7D", "U+1F7D", "ῳ", "U+1FF3",
     "U+03C9", "k", "U+00E5", "U+214E", "U+2170", "U+2171", "U+2172", "U+2173",
     "U+2174", "U+2175", "U+2176", "U+2177", "U+2178", "U+2179", "U+217A",
     "U+217B", "U+217C", "U+217D", "U+217E", "U+217F", "ↄ", "U+2184", "ⓐ",
     "U+24D0", "ⓑ", "U+24D1", "ⓒ", "U+24D2", "ⓓ", "U+24D3", "ⓔ", "U+24D4", "ⓕ",
     "U+24D5", "ⓖ", "U+24D6", "ⓗ", "U+24D7", "ⓘ", "U+24D8", "ⓙ", "U+24D9", "ⓚ",
     "U+24DA", "ⓛ", "U+24DB", "ⓜ", "U+24DC", "ⓝ", "U+24DD", "ⓞ", "U+24DE", "ⓟ",
     "U+24DF", "ⓠ", "U+24E0", "ⓡ", "U+24E1", "ⓢ", "U+24E2", "ⓣ", "U+24E3", "ⓤ",
     "U+24E4", "ⓥ", "U+24E5", "ⓦ", "U+24E6", "ⓧ", "U+24E7", "ⓨ", "U+24E8", "ⓩ",
     "U+24E9", "U+2C30", "U+2C31", "U+2C32", "U+2C33", "U+2C34", "U+2C35",
     "U+2C36", "U+2C37", "U+2C38", "U+2C39", "U+2C3A", "U+2C3B", "U+2C3C",
     "U+2C3D", "U+2C3E", "U+2C3F", "U+2C40", "U+2C41", "U+2C42", "U+2C43",
     "U+2C44", "U+2C45", "U+2C46", "U+2C47", "U+2C48", "U+2C49", "U+2C4A",
     "U+2C4B", "U+2C4C", "U+2C4D", "U+2C4E", "U+2C4F", "U+2C50", "U+2C51",
     "U+2C52", "U+2C53", "U+2C54", "U+2C55", "U+2C56", "U+2C57", "U+2C58",
     "U+2C59", "U+2C5A", "U+2C5B", "U+2C5C", "U+2C5D", "U+2C5E", "U+2C5F",
     "U+2C61", "U+026B", "U+1D7D", "U+027D", "U+2C68", "U+2C6A", "U+2C6C",
     "U+0251", "U+0271", "U+0250", "U+0252", "U+2C73", "U+2C76", "U+023F",
     "U+0240", "ⲁ", "U+2C81", "ⲃ", "U+2C83", "ⲅ", "U+2C85", "ⲇ", "U+2C87", "ⲉ",
     "U+2C89", "ⲋ", "U+2C8B", "ⲍ", "U+2C8D", "ⲏ", "U+2C8F", "ⲑ", "U+2C91", "ⲓ",
     "U+2C93", "ⲕ", "U+2C95", "ⲗ", "U+2C97", "ⲙ", "U+2C99", "ⲛ", "U+2C9B", "ⲝ",
     "U+2C9D", "ⲟ", "U+2C9F", "ⲡ", "U+2CA1", "ⲣ", "U+2CA3", "ⲥ", "U+2CA5", "ⲧ",
     "U+2CA7", "ⲩ", "U+2CA9", "ⲫ", "U+2CAB", "ⲭ", "U+2CAD", "ⲯ", "U+2CAF", "ⲱ",
     "U+2CB1", "ⲳ", "U+2CB3", "ⲵ", "U+2CB5", "ⲷ", "U+2CB7", "ⲹ", "U+2CB9", "ⲻ",
     "U+2CBB", "ⲽ", "U+2CBD", "ⲿ", "U+2CBF", "ⳁ", "U+2CC1", "ⳃ", "U+2CC3", "ⳅ",
     "U+2CC5", "ⳇ", "U+2CC7", "ⳉ", "U+2CC9", "ⳋ", "U+2CCB", "ⳍ", "U+2CCD", "ⳏ",
     "U+2CCF", "ⳑ", "U+2CD1", "ⳓ", "U+2CD3", "ⳕ", "U+2CD5", "ⳗ", "U+2CD7", "ⳙ",
     "U+2CD9", "ⳛ", "U+2CDB", "ⳝ", "U+2CDD", "ⳟ", "U+2CDF", "ⳡ", "U+2CE1", "ⳣ",
     "U+2CE3", "ⳬ", "U+2CEC", "ⳮ", "U+2CEE", "ⳳ", "U+2CF3", "U+A641", "U+A643",
     "U+A645", "U+A647", "U+A649", "U+A64B", "U+A64D", "U+A64F", "U+A651",
     "U+A653", "U+A655", "U+A657", "U+A659", "U+A65B", "U+A65D", "U+A65F",
     "U+A661", "U+A663", "U+A665", "U+A667", "U+A669", "U+A66B", "U+A66D", "ꚁ",
     "U+A681", "ꚃ", "U+A683", "ꚅ", "U+A685", "ꚇ", "U+A687", "ꚉ", "U+A689", "ꚋ",
     "U+A68B", "ꚍ", "U+A68D", "ꚏ", "U+A68F", "ꚑ", "U+A691", "ꚓ", "U+A693", "ꚕ",
     "U+A695", "ꚗ", "U+A697", "ꚙ", "U+A699", "ꚛ", "U+A69B", "U+A723", "U+A725",
     "U+A727", "U+A729", "U+A72B", "U+A72D", "U+A72F", "U+A733", "U+A735",
     "U+A737", "U+A739", "U+A73B", "U+A73D", "U+A73F", "U+A741", "U+A743",
     "U+A745", "U+A747", "U+A749", "U+A74B", "U+A74D", "U+A74F", "U+A751",
     "U+A753", "U+A755", "U+A757", "U+A759", "U+A75B", "U+A75D", "U+A75F",
     "U+A761", "U+A763", "U+A765", "U+A767", "U+A769", "U+A76B", "U+A76D",
     "U+A76F", "U+A77A", "U+A77C", "U+1D79", "U+A77F", "ꞁ", "U+A781", "ꞃ",
     "U+A783", "ꞅ", "U+A785", "ꞇ", "U+A787", "ꞌ", "U+A78C", "U+0265", "U+0265",
     "ꞑ", "U+A791", "ꞓ", "U+A793", "ꞗ", "U+A797", "ꞙ", "U+A799", "ꞛ", "U+A79B",
     "ꞝ", "U+A79D", "ꞟ", "U+A79F", "ꞡ", "U+A7A1", "ꞣ", "U+A7A3", "ꞥ", "U+A7A5",
     "ꞧ", "U+A7A7", "ꞩ", "U+A7A9", "U+0266", "U+0266", "U+025C", "U+025C",
     "U+0261", "U+0261", "U+026C", "U+026C", "U+026A", "U+026A", "ʞ", "U+029E",
     "ʇ", "U+0287", "ʝ", "U+029D", "U+AB53", "U+AB53", "ꞵ", "U+A7B5", "ꞷ",
     "U+A7B7", "ꞹ", "U+A7B9", "ꞻ", "U+A7BB", "ꞽ", "U+A7BD", "ꞿ", "U+A7BF", "ꟁ",
     "U+A7C1", "ꟃ", "U+A7C3", "ꞔ", "U+A794", "ʂ", "U+0282", "ᶎ", "U+1D8E", "ꟈ",
     "U+A7C8", "ꟊ", "U+A7CA", "U+0264", "U+0264", "ꟍ", "U+A7CD", "꟏", "U+A7CF",
     "ꟑ", "U+A7D1", "ꟓ", "U+A7D3", "ꟕ", "U+A7D5", "ꟗ", "U+A7D7", "ꟙ", "U+A7D9",
     "ꟛ", "U+A7DB", "ƛ", "U+019B", "ꟶ", "U+A7F6", "U+FF41", "U+FF42", "U+FF43",
     "U+FF44", "U+FF45", "U+FF46", "U+FF47", "U+FF48", "U+FF49", "U+FF4A",
     "U+FF4B", "U+FF4C", "U+FF4D", "U+FF4E", "U+FF4F", "U+FF50", "U+FF51",
     "U+FF52", "U+FF53", "U+FF54", "U+FF55", "U+FF56", "U+FF57", "U+FF58",
     "U+FF59", "U+FF5A">>

UpperCasePairs ==
    <<<<"U+D801", "U+DC00">>, <<"U+D801", "U+DC01">>, <<"U+D801", "U+DC02">>,
     <<"U+D801", "U+DC03">>, <<"U+D801", "U+DC04">>, <<"U+D801", "U+DC05">>,
     <<"U+D801", "U+DC06">>, <<"U+D801", "U+DC07">>, <<"U+D801", "U+DC08">>,
     <<"U+D801", "U+DC09">>, <<"U+D801", "U+DC0A">>, <<"U+D801", "U+DC0B">>,
     <<"U+D801", "U+DC0C">>, <<"U+D801", "U+DC0D">>, <<"U+D801", "U+DC0E">>,
     <<"U+D801", "U+DC0F">>, <<"U+D801", "U+DC10">>, <<"U+D801", "U+DC11">>,
     <<"U+D801", "U+DC12">>, <<"U+D801", "U+DC13">>, <<"U+D801", "U+DC14">>,
     <<"U+D801", "U+DC15">>, <<"U+D801", "U+DC16">>, <<"U+D801", "U+DC17">>,
     <<"U+D801", "U+DC18">>, <<"U+D801", "U+DC19">>, <<"U+D801", "U+DC1A">>,
     <<"U+D801", "U+DC1B">>, <<"U+D801", "U+DC1C">>, <<"U+D801", "U+DC1D">>,
     <<"U+D801", "U+DC1E">>, <<"U+D801", "U+DC1F">>, <<"U+D801", "U+DC20">>,
     <<"U+D801", "U+DC21">>, <<"U+D801", "U+DC22">>, <<"U+D801", "U+DC23">>,
     <<"U+D801", "U+DC24">>, <<"U+D801", "U+DC25">>, <<"U+D801", "U+DC26">>,
     <<"U+D801", "U+DC27">>, <<"U+D801", "U+DCB0">>, <<"U+D801", "U+DCB1">>,
     <<"U+D801", "U+DCB2">>, <<"U+D801", "U+DCB3">>, <<"U+D801", "U+DCB4">>,
     <<"U+D801", "U+DCB5">>, <<"U+D801", "U+DCB6">>, <<"U+D801", "U+DCB7">>,
     <<"U+D801", "U+DCB8">>, <<"U+D801", "U+DCB9">>, <<"U+D801", "U+DCBA">>,
     <<"U+D801", "U+DCBB">>, <<"U+D801", "U+DCBC">>, <<"U+D801", "U+DCBD">>,
     <<"U+D801", "U+DCBE">>, <<"U+D801", "U+DCBF">>, <<"U+D801", "U+DCC0">>,
     <<"U+D801", "U+DCC1">>, <<"U+D801", "U+DCC2">>, <<"U+D801", "U+DCC3">>,
     <<"U+D801", "U+DCC4">>, <<"U+D801", "U+DCC5">>, <<"U+D801", "U+DCC6">>,
     <<"U+D801", "U+DCC7">>, <<"U+D801", "U+DCC8">>, <<"U+D801", "U+DCC9">>,
     <<"U+D801", "U+DCCA">>, <<"U+D801", "U+DCCB">>, <<"U+D801", "U+DCCC">>,
     <<"U+D801", "U+DCCD">>, <<"U+D801", "U+DCCE">>, <<"U+D801", "U+DCCF">>,
     <<"U+D801", "U+DCD0">>, <<"U+D801", "U+DCD1">>, <<"U+D801", "U+DCD2">>,
     <<"U+D801", "U+DCD3">>, <<"U+D801", "U+DD70">>, <<"U+D801", "U+DD71">>,
     <<"U+D801", "U+DD72">>, <<"U+D801", "U+DD73">>, <<"U+D801", "U+DD74">>,
     <<"U+D801", "U+DD75">>, <<"U+D801", "U+DD76">>, <<"U+D801", "U+DD77">>,
     <<"U+D801", "U+DD78">>, <<"U+D801", "U+DD79">>, <<"U+D801", "U+DD7A">>,
     <<"U+D801", "U+DD7C">>, <<"U+D801", "U+DD7D">>, <<"U+D801", "U+DD7E">>,
     <<"U+D801", "U+DD7F">>, <<"U+D801", "U+DD80">>, <<"U+D801", "U+DD81">>,
     <<"U+D801", "U+DD82">>, <<"U+D801", "U+DD83">>, <<"U+D801", "U+DD84">>,
     <<"U+D801", "U+DD85">>, <<"U+D801", "U+DD86">>, <<"U+D801", "U+DD87">>,
     <<"U+D801", "U+DD88">>, <<"U+D801", "U+DD89">>, <<"U+D801", "U+DD8A">>,
     <<"U+D801", "U+DD8C">>, <<"U+D801", "U+DD8D">>, <<"U+D801", "U+DD8E">>,
     <<"U+D801", "U+DD8F">>, <<"U+D801", "U+DD90">>, <<"U+D801", "U+DD91">>,
     <<"U+D801", "U+DD92">>, <<"U+D801", "U+DD94">>, <<"U+D801", "U+DD95">>,
     <<"U+D803", "U+DC80">>, <<"U+D803", "U+DC81">>, <<"U+D803", "U+DC82">>,
     <<"U+D803", "U+DC83">>, <<"U+D803", "U+DC84">>, <<"U+D803", "U+DC85">>,
     <<"U+D803", "U+DC86">>, <<"U+D803", "U+DC87">>, <<"U+D803", "U+DC88">>,
     <<"U+D803", "U+DC89">>, <<"U+D803", "U+DC8A">>, <<"U+D803", "U+DC8B">>,
     <<"U+D803", "U+DC8C">>, <<"U+D803", "U+DC8D">>, <<"U+D803", "U+DC8E">>,
     <<"U+D803", "U+DC8F">>, <<"U+D803", "U+DC90">>, <<"U+D803", "U+DC91">>,
     <<"U+D803", "U+DC92">>, <<"U+D803", "U+DC93">>, <<"U+D803", "U+DC94">>,
     <<"U+D803", "U+DC95">>, <<"U+D803", "U+DC96">>, <<"U+D803", "U+DC97">>,
     <<"U+D803", "U+DC98">>, <<"U+D803", "U+DC99">>, <<"U+D803", "U+DC9A">>,
     <<"U+D803", "U+DC9B">>, <<"U+D803", "U+DC9C">>, <<"U+D803", "U+DC9D">>,
     <<"U+D803", "U+DC9E">>, <<"U+D803", "U+DC9F">>, <<"U+D803", "U+DCA0">>,
     <<"U+D803", "U+DCA1">>, <<"U+D803", "U+DCA2">>, <<"U+D803", "U+DCA3">>,
     <<"U+D803", "U+DCA4">>, <<"U+D803", "U+DCA5">>, <<"U+D803", "U+DCA6">>,
     <<"U+D803", "U+DCA7">>, <<"U+D803", "U+DCA8">>, <<"U+D803", "U+DCA9">>,
     <<"U+D803", "U+DCAA">>, <<"U+D803", "U+DCAB">>, <<"U+D803", "U+DCAC">>,
     <<"U+D803", "U+DCAD">>, <<"U+D803", "U+DCAE">>, <<"U+D803", "U+DCAF">>,
     <<"U+D803", "U+DCB0">>, <<"U+D803", "U+DCB1">>, <<"U+D803", "U+DCB2">>,
     <<"U+D803", "U+DD50">>, <<"U+D803", "U+DD51">>, <<"U+D803", "U+DD52">>,
     <<"U+D803", "U+DD53">>, <<"U+D803", "U+DD54">>, <<"U+D803", "U+DD55">>,
     <<"U+D803", "U+DD56">>, <<"U+D803", "U+DD57">>, <<"U+D803", "U+DD58">>,
     <<"U+D803", "U+DD59">>, <<"U+D803", "U+DD5A">>, <<"U+D803", "U+DD5B">>,
     <<"U+D803", "U+DD5C">>, <<"U+D803", "U+DD5D">>, <<"U+D803", "U+DD5E">>,
     <<"U+D803", "U+DD5F">>, <<"U+D803", "U+DD60">>, <<"U+D803", "U+DD61">>,
     <<"U+D803", "U+DD62">>, <<"U+D803", "U+DD63">>, <<"U+D803", "U+DD64">>,
     <<"U+D803", "U+DD65">>, <<"U+D806", "U+DCA0">>, <<"U+D806", "U+DCA1">>,
     <<"U+D806", "U+DCA2">>, <<"U+D806", "U+DCA3">>, <<"U+D806", "U+DCA4">>,
     <<"U+D806", "U+DCA5">>, <<"U+D806", "U+DCA6">>, <<"U+D806", "U+DCA7">>,
     <<"U+D806", "U+DCA8">>, <<"U+D806", "U+DCA9">>, <<"U+D806", "U+DCAA">>,
     <<"U+D806", "U+DCAB">>, <<"U+D806", "U+DCAC">>, <<"U+D806", "U+DCAD">>,
     <<"U+D806", "U+DCAE">>, <<"U+D806", "U+DCAF">>, <<"U+D806", "U+DCB0">>,
     <<"U+D806", "U+DCB1">>, <<"U+D806", "U+DCB2">>, <<"U+D806", "U+DCB3">>,
     <<"U+D806", "U+DCB4">>, <<"U+D806", "U+DCB5">>, <<"U+D806", "U+DCB6">>,
     <<"U+D806", "U+DCB7">>, <<"U+D806", "U+DCB8">>, <<"U+D806", "U+DCB9">>,
     <<"U+D806", "U+DCBA">>, <<"U+D806", "U+DCBB">>, <<"U+D806", "U+DCBC">>,
     <<"U+D806", "U+DCBD">>, <<"U+D806", "U+DCBE">>, <<"U+D806", "U+DCBF">>,
     <<"U+D81B", "U+DE40">>, <<"U+D81B", "U+DE41">>, <<"U+D81B", "U+DE42">>,
     <<"U+D81B", "U+DE43">>, <<"U+D81B", "U+DE44">>, <<"U+D81B", "U+DE45">>,
     <<"U+D81B", "U+DE46">>, <<"U+D81B", "U+DE47">>, <<"U+D81B", "U+DE48">>,
     <<"U+D81B", "U+DE49">>, <<"U+D81B", "U+DE4A">>, <<"U+D81B", "U+DE4B">>,
     <<"U+D81B", "U+DE4C">>, <<"U+D81B", "U+DE4D">>, <<"U+D81B", "U+DE4E">>,
     <<"U+D81B", "U+DE4F">>, <<"U+D81B", "U+DE50">>, <<"U+D81B", "U+DE51">>,
     <<"U+D81B", "U+DE52">>, <<"U+D81B", "U+DE53">>, <<"U+D81B", "U+DE54">>,
     <<"U+D81B", "U+DE55">>, <<"U+D81B", "U+DE56">>, <<"U+D81B", "U+DE57">>,
     <<"U+D81B", "U+DE58">>, <<"U+D81B", "U+DE59">>, <<"U+D81B", "U+DE5A">>,
     <<"U+D81B", "U+DE5B">>, <<"U+D81B", "U+DE5C">>, <<"U+D81B", "U+DE5D">>,
     <<"U+D81B", "U+DE5E">>, <<"U+D81B", "U+DE5F">>, <<"U+D81B", "U+DEA0">>,
     <<"U+D81B", "U+DEA1">>, <<"U+D81B", "U+DEA2">>, <<"U+D81B", "U+DEA3">>,
     <<"U+D81B", "U+DEA4">>, <<"U+D81B", "U+DEA5">>, <<"U+D81B", "U+DEA6">>,
     <<"U+D81B", "U+DEA7">>, <<"U+D81B", "U+DEA8">>, <<"U+D81B", "U+DEA9">>,
     <<"U+D81B", "U+DEAA">>, <<"U+D81B", "U+DEAB">>, <<"U+D81B", "U+DEAC">>,
     <<"U+D81B", "U+DEAD">>, <<"U+D81B", "U+DEAE">>, <<"U+D81B", "U+DEAF">>,
     <<"U+D81B", "U+DEB0">>, <<"U+D81B", "U+DEB1">>, <<"U+D81B", "U+DEB2">>,
     <<"U+D81B", "U+DEB3">>, <<"U+D81B", "U+DEB4">>, <<"U+D81B", "U+DEB5">>,
     <<"U+D81B", "U+DEB6">>, <<"U+D81B", "U+DEB7">>, <<"U+D81B", "U+DEB8">>,
     <<"U+D83A", "U+DD00">>, <<"U+D83A", "U+DD01">>, <<"U+D83A", "U+DD02">>,
     <<"U+D83A", "U+DD03">>, <<"U+D83A", "U+DD04">>, <<"U+D83A", "U+DD05">>,
     <<"U+D83A", "U+DD06">>, <<"U+D83A", "U+DD07">>, <<"U+D83A", "U+DD08">>,
     <<"U+D83A", "U+DD09">>, <<"U+D83A", "U+DD0A">>, <<"U+D83A", "U+DD0B">>,
     <<"U+D83A", "U+DD0C">>, <<"U+D83A", "U+DD0D">>, <<"U+D83A", "U+DD0E">>,
     <<"U+D83A", "U+DD0F">>, <<"U+D83A", "U+DD10">>, <<"U+D83A", "U+DD11">>,
     <<"U+D83A", "U+DD12">>, <<"U+D83A", "U+DD13">>, <<"U+D83A", "U+DD14">>,
     <<"U+D83A", "U+DD15">>, <<"U+D83A", "U+DD16">>, <<"U+D83A", "U+DD17">>,
     <<"U+D83A", "U+DD18">>, <<"U+D83A", "U+DD19">>, <<"U+D83A", "U+DD1A">>,
     <<"U+D83A", "U+DD1B">>, <<"U+D83A", "U+DD1C">>, <<"U+D83A", "U+DD1D">>,
     <<"U+D83A", "U+DD1E">>, <<"U+D83A", "U+DD1F">>, <<"U+D83A", "U+DD20">>,
     <<"U+D83A", "U+DD21">>>>

LowerCasePairs ==
    <<<<"U+D801", "U+DC28">>, <<"U+D801", "U+DC29">>, <<"U+D801", "U+DC2A">>,
     <<"U+D801", "U+DC2B">>, <<"U+D801", "U+DC2C">>, <<"U+D801", "U+DC2D">>,
     <<"U+D801", "U+DC2E">>, <<"U+D801", "U+DC2F">>, <<"U+D801", "U+DC30">>,
     <<"U+D801", "U+DC31">>, <<"U+D801", "U+DC32">>, <<"U+D801", "U+DC33">>,
     <<"U+D801", "U+DC34">>, <<"U+D801", "U+DC35">>, <<"U+D801", "U+DC36">>,
     <<"U+D801", "U+DC37">>, <<"U+D801", "U+DC38">>, <<"U+D801", "U+DC39">>,
     <<"U+D801", "U+DC3A">>, <<"U+D801", "U+DC3B">>, <<"U+D801", "U+DC3C">>,
     <<"U+D801", "U+DC3D">>, <<"U+D801", "U+DC3E">>, <<"U+D801", "U+DC3F">>,
     <<"U+D801", "U+DC40">>, <<"U+D801", "U+DC41">>, <<"U+D801", "U+DC42">>,
     <<"U+D801", "U+DC43">>, <<"U+D801", "U+DC44">>, <<"U+D801", "U+DC45">>,
     <<"U+D801", "U+DC46">>, <<"U+D801", "U+DC47">>, <<"U+D801", "U+DC48">>,
     <<"U+D801", "U+DC49">>, <<"U+D801", "U+DC4A">>, <<"U+D801", "U+DC4B">>,
     <<"U+D801", "U+DC4C">>, <<"U+D801", "U+DC4D">>, <<"U+D801", "U+DC4E">>,
     <<"U+D801", "U+DC4F">>, <<"U+D801", "U+DCD8">>, <<"U+D801", "U+DCD9">>,
     <<"U+D801", "U+DCDA">>, <<"U+D801", "U+DCDB">>, <<"U+D801", "U+DCDC">>,
     <<"U+D801", "U+DCDD">>, <<"U+D801", "U+DCDE">>, <<"U+D801", "U+DCDF">>,
     <<"U+D801", "U+DCE0">>, <<"U+D801", "U+DCE1">>, <<"U+D801", "U+DCE2">>,
     <<"U+D801", "U+DCE3">>, <<"U+D801", "U+DCE4">>, <<"U+D801", "U+DCE5">>,
     <<"U+D801", "U+DCE6">>, <<"U+D801", "U+DCE7">>, <<"U+D801", "U+DCE8">>,
     <<"U+D801", "U+DCE9">>, <<"U+D801", "U+DCEA">>, <<"U+D801", "U+DCEB">>,
     <<"U+D801", "U+DCEC">>, <<"U+D801", "U+DCED">>, <<"U+D801", "U+DCEE">>,
     <<"U+D801", "U+DCEF">>, <<"U+D801", "U+DCF0">>, <<"U+D801", "U+DCF1">>,
     <<"U+D801", "U+DCF2">>, <<"U+D801", "U+DCF3">>, <<"U+D801", "U+DCF4">>,
     <<"U+D801", "U+DCF5">>, <<"U+D801", "U+DCF6">>, <<"U+D801", "U+DCF7">>,
     <<"U+D801", "U+DCF8">>, <<"U+D801", "U+DCF9">>, <<"U+D801", "U+DCFA">>,
     <<"U+D801", "U+DCFB">>, <<"U+D801", "U+DD97">>, <<"U+D801", "U+DD98">>,
     <<"U+D801", "U+DD99">>, <<"U+D801", "U+DD9A">>, <<"U+D801", "U+DD9B">>,
     <<"U+D801", "U+DD9C">>, <<"U+D801", "U+DD9D">>, <<"U+D801", "U+DD9E">>,
     <<"U+D801", "U+DD9F">>, <<"U+D801", "U+DDA0">>, <<"U+D801", "U+DDA1">>,
     <<"U+D801", "U+DDA3">>, <<"U+D801", "U+DDA4">>, <<"U+D801", "U+DDA5">>,
     <<"U+D801", "U+DDA6">>, <<"U+D801", "U+DDA7">>, <<"U+D801", "U+DDA8">>,
     <<"U+D801", "U+DDA9">>, <<"U+D801", "U+DDAA">>, <<"U+D801", "U+DDAB">>,
     <<"U+D801", "U+DDAC">>, <<"U+D801", "U+DDAD">>, <<"U+D801", "U+DDAE">>,
     <<"U+D801", "U+DDAF">>, <<"U+D801", "U+DDB0">>, <<"U+D801", "U+DDB1">>,
     <<"U+D801", "U+DDB3">>, <<"U+D801", "U+DDB4">>, <<"U+D801", "U+DDB5">>,
     <<"U+D801", "U+DDB6">>, <<"U+D801", "U+DDB7">>, <<"U+D801", "U+DDB8">>,
     <<"U+D801", "U+DDB9">>, <<"U+D801", "U+DDBB">>, <<"U+D801", "U+DDBC">>,
     <<"U+D803", "U+DCC0">>, <<"U+D803", "U+DCC1">>, <<"U+D803", "U+DCC2">>,
     <<"U+D803", "U+DCC3">>, <<"U+D803", "U+DCC4">>, <<"U+D803", "U+DCC5">>,
     <<"U+D803", "U+DCC6">>, <<"U+D803", "U+DCC7">>, <<"U+D803", "U+DCC8">>,
     <<"U+D803", "U+DCC9">>, <<"U+D803", "U+DCCA">>, <<"U+D803", "U+DCCB">>,
     <<"U+D803", "U+DCCC">>, <<"U+D803", "U+DCCD">>, <<"U+D803", "U+DCCE">>,
     <<"U+D803", "U+DCCF">>, <<"U+D803", "U+DCD0">>, <<"U+D803", "U+DCD1">>,
     <<"U+D803", "U+DCD2">>, <<"U+D803", "U+DCD3">>, <<"U+D803", "U+DCD4">>,
     <<"U+D803", "U+DCD5">>, <<"U+D803", "U+DCD6">>, <<"U+D803", "U+DCD7">>,
     <<"U+D803", "U+DCD8">>, <<"U+D803", "U+DCD9">>, <<"U+D803", "U+DCDA">>,
     <<"U+D803", "U+DCDB">>, <<"U+D803", "U+DCDC">>, <<"U+D803", "U+DCDD">>,
     <<"U+D803", "U+DCDE">>, <<"U+D803", "U+DCDF">>, <<"U+D803", "U+DCE0">>,
     <<"U+D803", "U+DCE1">>, <<"U+D803", "U+DCE2">>, <<"U+D803", "U+DCE3">>,
     <<"U+D803", "U+DCE4">>, <<"U+D803", "U+DCE5">>, <<"U+D803", "U+DCE6">>,
     <<"U+D803", "U+DCE7">>, <<"U+D803", "U+DCE8">>, <<"U+D803", "U+DCE9">>,
     <<"U+D803", "U+DCEA">>, <<"U+D803", "U+DCEB">>, <<"U+D803", "U+DCEC">>,
     <<"U+D803", "U+DCED">>, <<"U+D803", "U+DCEE">>, <<"U+D803", "U+DCEF">>,
     <<"U+D803", "U+DCF0">>, <<"U+D803", "U+DCF1">>, <<"U+D803", "U+DCF2">>,
     <<"U+D803", "U+DD70">>, <<"U+D803", "U+DD71">>, <<"U+D803", "U+DD72">>,
     <<"U+D803", "U+DD73">>, <<"U+D803", "U+DD74">>, <<"U+D803", "U+DD75">>,
     <<"U+D803", "U+DD76">>, <<"U+D803", "U+DD77">>, <<"U+D803", "U+DD78">>,
     <<"U+D803", "U+DD79">>, <<"U+D803", "U+DD7A">>, <<"U+D803", "U+DD7B">>,
     <<"U+D803", "U+DD7C">>, <<"U+D803", "U+DD7D">>, <<"U+D803", "U+DD7E">>,
     <<"U+D803", "U+DD7F">>, <<"U+D803", "U+DD80">>, <<"U+D803", "U+DD81">>,
     <<"U+D803", "U+DD82">>, <<"U+D803", "U+DD83">>, <<"U+D803", "U+DD84">>,
     <<"U+D803", "U+DD85">>, <<"U+D806", "U+DCC0">>, <<"U+D806", "U+DCC1">>,
     <<"U+D806", "U+DCC2">>, <<"U+D806", "U+DCC3">>, <<"U+D806", "U+DCC4">>,
     <<"U+D806", "U+DCC5">>, <<"U+D806", "U+DCC6">>, <<"U+D806", "U+DCC7">>,
     <<"U+D806", "U+DCC8">>, <<"U+D806", "U+DCC9">>, <<"U+D806", "U+DCCA">>,
     <<"U+D806", "U+DCCB">>, <<"U+D806", "U+DCCC">>, <<"U+D806", "U+DCCD">>,
     <<"U+D806", "U+DCCE">>, <<"U+D806", "U+DCCF">>, <<"U+D806", "U+DCD0">>,
     <<"U+D806", "U+DCD1">>, <<"U+D806", "U+DCD2">>, <<"U+D806", "U+DCD3">>,
     <<"U+D806", "U+DCD4">>, <<"U+D806", "U+DCD5">>, <<"U+D806", "U+DCD6">>,
     <<"U+D806", "U+DCD7">>, <<"U+D806", "U+DCD8">>, <<"U+D806", "U+DCD9">>,
     <<"U+D806", "U+DCDA">>, <<"U+D806", "U+DCDB">>, <<"U+D806", "U+DCDC">>,
     <<"U+D806", "U+DCDD">>, <<"U+D806", "U+DCDE">>, <<"U+D806", "U+DCDF">>,
     <<"U+D81B", "U+DE60">>, <<"U+D81B", "U+DE61">>, <<"U+D81B", "U+DE62">>,
     <<"U+D81B", "U+DE63">>, <<"U+D81B", "U+DE64">>, <<"U+D81B", "U+DE65">>,
     <<"U+D81B", "U+DE66">>, <<"U+D81B", "U+DE67">>, <<"U+D81B", "U+DE68">>,
     <<"U+D81B", "U+DE69">>, <<"U+D81B", "U+DE6A">>, <<"U+D81B", "U+DE6B">>,
     <<"U+D81B", "U+DE6C">>, <<"U+D81B", "U+DE6D">>, <<"U+D81B", "U+DE6E">>,
     <<"U+D81B", "U+DE6F">>, <<"U+D81B", "U+DE70">>, <<"U+D81B", "U+DE71">>,
     <<"U+D81B", "U+DE72">>, <<"U+D81B", "U+DE73">>, <<"U+D81B", "U+DE74">>,
     <<"U+D81B", "U+DE75">>, <<"U+D81B", "U+DE76">>, <<"U+D81B", "U+DE77">>,
     <<"U+D81B", "U+DE78">>, <<"U+D81B", "U+DE79">>, <<"U+D81B", "U+DE7A">>,
     <<"U+D81B", "U+DE7B">>, <<"U+D81B", "U+DE7C">>, <<"U+D81B", "U+DE7D">>,
     <<"U+D81B", "U+DE7E">>, <<"U+D81B", "U+DE7F">>, <<"U+D81B", "U+DEBB">>,
     <<"U+D81B", "U+DEBC">>, <<"U+D81B", "U+DEBD">>, <<"U+D81B", "U+DEBE">>,
     <<"U+D81B", "U+DEBF">>, <<"U+D81B", "U+DEC0">>, <<"U+D81B", "U+DEC1">>,
     <<"U+D81B", "U+DEC2">>, <<"U+D81B", "U+DEC3">>, <<"U+D81B", "U+DEC4">>,
     <<"U+D81B", "U+DEC5">>, <<"U+D81B", "U+DEC6">>, <<"U+D81B", "U+DEC7">>,
     <<"U+D81B", "U+DEC8">>, <<"U+D81B", "U+DEC9">>, <<"U+D81B", "U+DECA">>,
     <<"U+D81B", "U+DECB">>, <<"U+D81B", "U+DECC">>, <<"U+D81B", "U+DECD">>,
     <<"U+D81B", "U+DECE">>, <<"U+D81B", "U+DECF">>, <<"U+D81B", "U+DED0">>,
     <<"U+D81B", "U+DED1">>, <<"U+D81B", "U+DED2">>, <<"U+D81B", "U+DED3">>,
     <<"U+D83A", "U+DD22">>, <<"U+D83A", "U+DD23">>, <<"U+D83A", "U+DD24">>,
     <<"U+D83A", "U+DD25">>, <<"U+D83A", "U+DD26">>, <<"U+D83A", "U+DD27">>,
     <<"U+D83A", "U+DD28">>, <<"U+D83A", "U+DD29">>, <<"U+D83A", "U+DD2A">>,
     <<"U+D83A", "U+DD2B">>, <<"U+D83A", "U+DD2C">>, <<"U+D83A", "U+DD2D">>,
     <<"U+D83A", "U+DD2E">>, <<"U+D83A", "U+DD2F">>, <<"U+D83A", "U+DD30">>,
     <<"U+D83A", "U+DD31">>, <<"U+D83A", "U+DD32">>, <<"U+D83A", "U+DD33">>,
     <<"U+D83A", "U+DD34">>, <<"U+D83A", "U+DD35">>, <<"U+D83A", "U+DD36">>,
     <<"U+D83A", "U+DD37">>, <<"U+D83A", "U+DD38">>, <<"U+D83A", "U+DD39">>,
     <<"U+D83A", "U+DD3A">>, <<"U+D83A", "U+DD3B">>, <<"U+D83A", "U+DD3C">>,
     <<"U+D83A", "U+DD3D">>, <<"U+D83A", "U+DD3E">>, <<"U+D83A", "U+DD3F">>,
     <<"U+D83A", "U+DD40">>, <<"U+D83A", "U+DD41">>, <<"U+D83A", "U+DD42">>,
     <<"U+D83A", "U+DD43">>>>

UpperCaseLetters == {UpperCase[k] : k \in DOMAIN UpperCase}
LowerCaseLetters == {LowerCase[k] : k \in DOMAIN LowerCase}
UpperCasePairLetters == {UpperCasePairs[k] : k \in DOMAIN UpperCasePairs}
LowerCasePairLetters == {LowerCasePairs[k] : k \in DOMAIN LowerCasePairs}

\* the cased letters that are in neither table, the sigmas and the capital I
\* with a dot above (U+0130) among them
OtherCased ==
    {"ª", "U+00AA", "µ", "U+00B5", "º", "U+00BA", "ÿ", "U+0130", "U+0131",
     "U+0138", "U+0149", "U+017F", "ƀ", "ƍ", "U+018D", "ƚ", "ƞ", "ƪ", "U+01AA",
     "ƫ", "U+01AB", "ƺ", "U+01BA", "ƾ", "U+01BE", "ǰ", "U+01F0", "U+0221",
     "U+0234", "U+0235", "U+0236", "U+0237", "U+0238", "U+0239", "U+0255",
     "U+0258", "U+025A", "U+025D", "U+025E", "U+025F", "U+0262", "U+0267",
     "U+026D", "U+026E", "U+0270", "U+0273", "U+0274", "U+0276", "U+0277",
     "U+0278", "U+0279", "U+027A", "U+027B", "U+027C", "U+027E", "U+027F", "ʁ",
     "U+0281", "ʄ", "U+0284", "ʅ", "U+0285", "ʆ", "U+0286", "ʉ", "ʌ", "ʍ",
     "U+028D", "ʎ", "U+028E", "ʏ", "U+028F", "ʐ", "U+0290", "ʑ", "U+0291", "ʓ",
     "U+0293", "ʖ", "U+0296", "ʗ", "U+0297", "ʘ", "U+0298", "ʙ", "U+0299", "ʚ",
     "U+029A", "ʛ", "U+029B", "ʜ", "U+029C", "ʟ", "U+029F", "ʠ", "U+02A0", "ʡ",
     "U+02A1", "ʢ", "U+02A2", "ʣ", "U+02A3", "ʤ", "U+02A4", "ʥ", "U+02A5", "ʦ",
     "U+02A6", "ʧ", "U+02A7", "ʨ", "U+02A8", "ʩ", "U+02A9", "ʪ", "U+02AA", "ʫ",
     "U+02AB", "ʬ", "U+02AC", "ʭ", "U+02AD", "ʮ", "U+02AE", "ʯ", "U+02AF", "ʰ",
     "U+02B0", "ʱ", "U+02B1", "ʲ", "U+02B2", "ʳ", "U+02B3", "ʴ", "U+02B4", "ʵ",
     "U+02B5", "ʶ", "U+02B6", "ʷ", "U+02B7", "ʸ", "U+02B8", "ˀ", "U+02C0", "ˁ",
     "U+02C1", "ˠ", "U+02E0", "ˡ", "U+02E1", "ˢ", "U+02E2", "ˣ", "U+02E3", "ˤ",
     "U+02E4", "U+0345", "U+037A", "ΐ", "U+0390", "Σ", "U+03A3", "ΰ", "U+03B0",
     "ς", "U+03C2", "σ", "U+03C3", "ϐ", "U+03D0", "ϑ", "U+03D1", "ϒ", "U+03D2",
     "ϓ", "U+03D3", "ϔ", "U+03D4", "ϕ", "U+03D5", "ϖ", "U+03D6", "ϰ", "U+03F0",
     "ϱ", "U+03F1", "ϳ", "ϵ", "U+03F5", "ϼ", "U+03FC", "U+0560", "ր", "ց", "ւ",
     "փ", "ք", "օ", "ֆ", "և", "U+0587", "ֈ", "U+0588", "ჼ", "U+10FC", "ᲀ",
     "U+1C80", "ᲁ", "U+1C81", "ᲂ", "U+1C82", "ᲃ", "U+1C83", "ᲄ", "U+1C84", "ᲅ",
     "U+1C85", "ᲆ", "U+1C86", "ᲇ", "U+1C87", "ᲈ", "U+1C88", "U+1D00", "U+1D01",
     "U+1D02", "U+1D03", "U+1D04", "U+1D05", "U+1D06", "U+1D07", "U+1D08",
     "U+1D09", "U+1D0A", "U+1D0B", "U+1D0C", "U+1D0D", "U+1D0E", "U+1D0F",
     "U+1D10", "U+1D11", "U+1D12", "U+1D13", "U+1D14", "U+1D15", "U+1D16",
     "U+1D17", "U+1D18", "U+1D19", "U+1D1A", "U+1D1B", "U+1D1C", "U+1D1D",
     "U+1D1E", "U+1D1F", "U+1D20", "U+1D21", "U+1D22", "U+1D23", "U+1D24",
     "U+1D25", "U+1D26", "U+1D27", "U+1D28", "U+1D29", "U+1D2A", "U+1D2B",
     "U+1D2C", "U+1D2D", "U+1D2E", "U+1D2F", "U+1D30", "U+1D31", "U+1D32",
     "U+1D33", "U+1D34", "U+1D35", "U+1D36", "U+1D37", "U+1D38", "U+1D39",
     "U+1D3A", "U+1D3B", "U+1D3C", "U+1D3D", "U+1D3E", "U+1D3F", "U+1D40",
     "U+1D41", "U+1D42", "U+1D43", "U+1D44", "U+1D45", "U+1D46", "U+1D47",
     "U+1D48", "U+1D49", "U+1D4A", "U+1D4B", "U+1D4C", "U+1D4D", "U+1D4E",
     "U+1D4F", "U+1D50", "U+1D51", "U+1D52", "U+1D53", "U+1D54", "U+1D55",
     "U+1D56", "U+1D57", "U+1D58", "U+1D59", "U+1D5A", "U+1D5B", "U+1D5C",
     "U+1D5D", "U+1D5E", "U+1D5F", "U+1D60", "U+1D61", "U+1D62", "U+1D63",
     "U+1D64", "U+1D65", "U+1D66", "U+1D67", "U+1D68", "U+1D69", "U+1D6A",
     "U+1D6B", "U+1D6C", "U+1D6D", "U+1D6E", "U+1D6F", "U+1D70", "U+1D71",
     "U+1D72", "U+1D73", "U+1D74", "U+1D75", "U+1D76", "U+1D77", "U+1D78",
     "U+1D7A", "U+1D7B", "U+1D7C", "U+1D7E", "U+1D7F", "ᶀ", "U+1D80", "ᶁ",
     "U+1D81", "ᶂ", "U+1D82", "ᶃ", "U+1D83", "ᶄ", "U+1D84", "ᶅ", "U+1D85", "ᶆ",
     "U+1D86", "ᶇ", "U+1D87", "ᶈ", "U+1D88", "ᶉ", "U+1D89", "ᶊ", "U+1D8A", "ᶋ",
     "U+1D8B", "ᶌ", "U+1D8C", "ᶍ", "U+1D8D", "ᶏ", "U+1D8F", "ᶐ", "U+1D90", "ᶑ",
     "U+1D91", "ᶒ", "U+1D92", "ᶓ", "U+1D93", "ᶔ", "U+1D94", "ᶕ", "U+1D95", "ᶖ",
     "U+1D96", "ᶗ", "U+1D97", "ᶘ", "U+1D98", "ᶙ", "U+1D99", "ᶚ", "U+1D9A", "ᶛ",
     "U+1D9B", "ᶜ", "U+1D9C", "ᶝ", "U+1D9D", "ᶞ", "U+1D9E", "ᶟ", "U+1D9F", "ᶠ",
     "U+1DA0", "ᶡ", "U+1DA1", "ᶢ", "U+1DA2", "ᶣ", "U+1DA3", "ᶤ", "U+1DA4", "ᶥ",
     "U+1DA5", "ᶦ", "U+1DA6", "ᶧ", "U+1DA7", "ᶨ", "U+1DA8", "ᶩ", "U+1DA9", "ᶪ",
     "U+1DAA", "ᶫ", "U+1DAB", "ᶬ", "U+1DAC", "ᶭ", "U+1DAD", "ᶮ", "U+1DAE", "ᶯ",
     "U+1DAF", "ᶰ", "U+1DB0", "ᶱ", "U+1DB1", "ᶲ", "U+1DB2", "ᶳ", "U+1DB3", "ᶴ",
     "U+1DB4", "ᶵ", "U+1DB5", "ᶶ", "U+1DB6", "ᶷ", "U+1DB7", "ᶸ", "U+1DB8", "ᶹ",
     "U+1DB9", "ᶺ", "U+1DBA", "ᶻ", "U+1DBB", "ᶼ", "U+1DBC", "ᶽ", "U+1DBD", "ᶾ",
     "U+1DBE", "ᶿ", "U+1DBF", "ẖ", "U+1E96", "ẗ", "U+1E97", "ẘ", "U+1E98", "ẙ",
     "U+1E99", "ẚ", "U+1E9A", "ẛ", "U+1E9B", "ẜ", "U+1E9C", "ẝ", "U+1E9D", "ẟ",
     "U+1E9F", "U+1F50", "U+1F52", "U+1F54", "U+1F56", "ᾲ", "U+1FB2", "ᾴ",
     "U+1FB4", "ᾶ", "U+1FB6", "ᾷ", "U+1FB7", "ι", "U+1FBE", "ῂ", "U+1FC2", "ῄ",
     "U+1FC4", "ῆ", "U+1FC6", "ῇ", "U+1FC7", "ῒ", "U+1FD2", "ΐ", "U+1FD3", "ῖ",
     "U+1FD6", "ῗ", "U+1FD7", "ῢ", "U+1FE2", "ΰ", "U+1FE3", "ῤ", "U+1FE4", "ῦ",
     "U+1FE6", "ῧ", "U+1FE7", "ῲ", "U+1FF2", "ῴ", "U+1FF4", "ῶ", "U+1FF6", "ῷ",
     "U+1FF7", "U+2071", "U+207F", "ₐ", "U+2090", "ₑ", "U+2091", "ₒ", "U+2092",
     "ₓ", "U+2093", "ₔ", "U+2094", "ₕ", "U+2095", "ₖ", "U+2096", "ₗ", "U+2097",
     "ₘ", "U+2098", "ₙ", "U+2099", "ₚ", "U+209A", "ₛ", "U+209B", "ₜ", "U+209C",
     "U+2102", "U+2107", "U+210A", "U+210B", "U+210C", "U+210D", "U+210E",
     "U+210F", "U+2110", "U+2111", "U+2112", "U+2113", "U+2115", "U+2119",
     "U+211A", "U+211B", "U+211C", "U+211D", "U+2124", "U+2128", "U+212C",
     "U+212D", "U+212F", "U+2130", "U+2131", "U+2133", "U+2134", "U+2139",
     "U+213C", "U+213D", "U+213E", "U+213F", "U+2145", "U+2146", "U+2147",
     "U+2148", "U+2149", "U+2C71", "U+2C74", "U+2C77", "U+2C78", "U+2C79",
     "U+2C7A", "U+2C7B", "U+2C7C", "U+2C7D", "ⳤ", "U+2CE4", "ꚜ", "U+A69C", "ꚝ",
     "U+A69D", "U+A730", "U+A731", "U+A770", "U+A771", "U+A772", "U+A773",
     "U+A774", "U+A775", "U+A776", "U+A777", "U+A778", "ꞎ", "U+A78E", "ꞕ",
     "U+A795", "ꞯ", "U+A7AF", "꟱", "U+A7F1", "ꟲ", "U+A7F2", "ꟳ", "U+A7F3", "ꟴ",
     "U+A7F4", "ꟸ", "U+A7F8", "ꟹ", "U+A7F9", "ꟺ", "U+A7FA", "U+AB30", "U+AB31",
     "U+AB32", "U+AB33", "U+AB34", "U+AB35", "U+AB36", "U+AB37", "U+AB38",
     "U+AB39", "U+AB3A", "U+AB3B", "U+AB3C", "U+AB3D", "U+AB3E", "U+AB3F",
     "U+AB40", "U+AB41", "U+AB42", "U+AB43", "U+AB44", "U+AB45", "U+AB46",
     "U+AB47", "U+AB48", "U+AB49", "U+AB4A", "U+AB4B", "U+AB4C", "U+AB4D",
     "U+AB4E", "U+AB4F", "U+AB50", "U+AB51", "U+AB52", "U+AB54", "U+AB55",
     "U+AB56", "U+AB57", "U+AB58", "U+AB59", "U+AB5A", "U+AB5C", "U+AB5D",
     "U+AB5E", "U+AB5F", "U+AB60", "U+AB61", "U+AB62", "U+AB63", "U+AB64",
     "U+AB65", "U+AB66", "U+AB67", "U+AB68", "U+AB69", "U+FB00", "U+FB01",
     "U+FB02", "U+FB03", "U+FB04", "U+FB05", "U+FB06", "U+FB13", "U+FB14",
     "U+FB15", "U+FB16", "U+FB17"}

OtherCasedPairs ==
    {<<"U+D801", "U+DF80">>, <<"U+D801", "U+DF83">>, <<"U+D801", "U+DF84">>,
     <<"U+D801", "U+DF85">>, <<"U+D801", "U+DF87">>, <<"U+D801", "U+DF88">>,
     <<"U+D801", "U+DF89">>, <<"U+D801", "U+DF8A">>, <<"U+D801", "U+DF8B">>,
     <<"U+D801", "U+DF8C">>, <<"U+D801", "U+DF8D">>, <<"U+D801", "U+DF8E">>,
     <<"U+D801", "U+DF8F">>, <<"U+D801", "U+DF90">>, <<"U+D801", "U+DF91">>,
     <<"U+D801", "U+DF92">>, <<"U+D801", "U+DF93">>, <<"U+D801", "U+DF94">>,
     <<"U+D801", "U+DF95">>, <<"U+D801", "U+DF96">>, <<"U+D801", "U+DF97">>,
     <<"U+D801", "U+DF98">>, <<"U+D801", "U+DF99">>, <<"U+D801", "U+DF9A">>,
     <<"U+D801", "U+DF9B">>, <<"U+D801", "U+DF9C">>, <<"U+D801", "U+DF9D">>,
     <<"U+D801", "U+DF9E">>, <<"U+D801", "U+DF9F">>, <<"U+D801", "U+DFA0">>,
     <<"U+D801", "U+DFA1">>, <<"U+D801", "U+DFA2">>, <<"U+D801", "U+DFA3">>,
     <<"U+D801", "U+DFA4">>, <<"U+D801", "U+DFA5">>, <<"U+D801", "U+DFA6">>,
     <<"U+D801", "U+DFA7">>, <<"U+D801", "U+DFA8">>, <<"U+D801", "U+DFA9">>,
     <<"U+D801", "U+DFAA">>, <<"U+D801", "U+DFAB">>, <<"U+D801", "U+DFAC">>,
     <<"U+D801", "U+DFAD">>, <<"U+D801", "U+DFAE">>, <<"U+D801", "U+DFAF">>,
     <<"U+D801", "U+DFB0">>, <<"U+D801", "U+DFB2">>, <<"U+D801", "U+DFB3">>,
     <<"U+D801", "U+DFB4">>, <<"U+D801", "U+DFB5">>, <<"U+D801", "U+DFB6">>,
     <<"U+D801", "U+DFB7">>, <<"U+D801", "U+DFB8">>, <<"U+D801", "U+DFB9">>,
     <<"U+D801", "U+DFBA">>, <<"U+D835", "U+DC00">>, <<"U+D835", "U+DC01">>,
     <<"U+D835", "U+DC02">>, <<"U+D835", "U+DC03">>, <<"U+D835", "U+DC04">>,
     <<"U+D835", "U+DC05">>, <<"U+D835", "U+DC06">>, <<"U+D835", "U+DC07">>,
     <<"U+D835", "U+DC08">>, <<"U+D835", "U+DC09">>, <<"U+D835", "U+DC0A">>,
     <<"U+D835", "U+DC0B">>, <<"U+D835", "U+DC0C">>, <<"U+D835", "U+DC0D">>,
     <<"U+D835", "U+DC0E">>, <<"U+D835", "U+DC0F">>, <<"U+D835", "U+DC10">>,
     <<"U+D835", "U+DC11">>, <<"U+D835", "U+DC12">>, <<"U+D835", "U+DC13">>,
     <<"U+D835", "U+DC14">>, <<"U+D835", "U+DC15">>, <<"U+D835", "U+DC16">>,
     <<"U+D835", "U+DC17">>, <<"U+D835", "U+DC18">>, <<"U+D835", "U+DC19">>,
     <<"U+D835", "U+DC1A">>, <<"U+D835", "U+DC1B">>, <<"U+D835", "U+DC1C">>,
     <<"U+D835", "U+DC1D">>, <<"U+D835", "U+DC1E">>, <<"U+D835", "U+DC1F">>,
     <<"U+D835", "U+DC20">>, <<"U+D835", "U+DC21">>, <<"U+D835", "U+DC22">>,
     <<"U+D835", "U+DC23">>, <<"U+D835", "U+DC24">>, <<"U+D835", "U+DC25">>,
     <<"U+D835", "U+DC26">>, <<"U+D835", "U+DC27">>, <<"U+D835", "U+DC28">>,
     <<"U+D835", "U+DC29">>, <<"U+D835", "U+DC2A">>, <<"U+D835", "U+DC2B">>,
     <<"U+D835", "U+DC2C">>, <<"U+D835", "U+DC2D">>, <<"U+D835", "U+DC2E">>,
     <<"U+D835", "U+DC2F">>, <<"U+D835", "U+DC30">>, <<"U+D835", "U+DC31">>,
     <<"U+D835", "U+DC32">>, <<"U+D835", "U+DC33">>, <<"U+D835", "U+DC34">>,
     <<"U+D835", "U+DC35">>, <<"U+D835", "U+DC36">>, <<"U+D835", "U+DC37">>,
     <<"U+D835", "U+DC38">>, <<"U+D835", "U+DC39">>, <<"U+D835", "U+DC3A">>,
     <<"U+D835", "U+DC3B">>, <<"U+D835", "U+DC3C">>, <<"U+D835", "U+DC3D">>,
     <<"U+D835", "U+DC3E">>, <<"U+D835", "U+DC3F">>, <<"U+D835", "U+DC40">>,
     <<"U+D835", "U+DC41">>, <<"U+D835", "U+DC42">>, <<"U+D835", "U+DC43">>,
     <<"U+D835", "U+DC44">>, <<"U+D835", "U+DC45">>, <<"U+D835", "U+DC46">>,
     <<"U+D835", "U+DC47">>, <<"U+D835", "U+DC48">>, <<"U+D835", "U+DC49">>,
     <<"U+D835", "U+DC4A">>, <<"U+D835", "U+DC4B">>, <<"U+D835", "U+DC4C">>,
     <<"U+D835", "U+DC4D">>, <<"U+D835", "U+DC4E">>, <<"U+D835", "U+DC4F">>,
     <<"U+D835", "U+DC50">>, <<"U+D835", "U+DC51">>, <<"U+D835", "U+DC52">>,
     <<"U+D835", "U+DC53">>, <<"U+D835", "U+DC54">>, <<"U+D835", "U+DC56">>,
     <<"U+D835", "U+DC57">>, <<"U+D835", "U+DC58">>, <<"U+D835", "U+DC59">>,
     <<"U+D835", "U+DC5A">>, <<"U+D835", "U+DC5B">>, <<"U+D835", "U+DC5C">>,
     <<"U+D835", "U+DC5D">>, <<"U+D835", "U+DC5E">>, <<"U+D835", "U+DC5F">>,
     <<"U+D835", "U+DC60">>, <<"U+D835", "U+DC61">>, <<"U+D835", "U+DC62">>,
     <<"U+D835", "U+DC63">>, <<"U+D835", "U+DC64">>, <<"U+D835", "U+DC65">>,
     <<"U+D835", "U+DC66">>, <<"U+D835", "U+DC67">>, <<"U+D835", "U+DC68">>,
     <<"U+D835", "U+DC69">>, <<"U+D835", "U+DC6A">>, <<"U+D835", "U+DC6B">>,
     <<"U+D835", "U+DC6C">>, <<"U+D835", "U+DC6D">>, <<"U+D835", "U+DC6E">>,
     <<"U+D835", "U+DC6F">>, <<"U+D835", "U+DC70">>, <<"U+D835", "U+DC71">>,
     <<"U+D835", "U+DC72">>, <<"U+D835", "U+DC73">>, <<"U+D835", "U+DC74">>,
     <<"U+D835", "U+DC75">>, <<"U+D835", "U+DC76">>, <<"U+D835", "U+DC77">>,
     <<"U+D835", "U+DC78">>, <<"U+D835", "U+DC79">>, <<"U+D835", "U+DC7A">>,
     <<"U+D835", "U+DC7B">>, <<"U+D835", "U+DC7C">>, <<"U+D835", "U+DC7D">>,
     <<"U+D835", "U+DC7E">>, <<"U+D835", "U+DC7F">>, <<"U+D835", "U+DC80">>,
     <<"U+D835", "U+DC81">>, <<"U+D835", "U+DC82">>, <<"U+D835", "U+DC83">>,
     <<"U+D835", "U+DC84">>, <<"U+D835", "U+DC85">>, <<"U+D835", "U+DC86">>,
     <<"U+D835", "U+DC87">>, <<"U+D835", "U+DC88">>, <<"U+D835", "U+DC89">>,
     <<"U+D835", "U+DC8A">>, <<"U+D835", "U+DC8B">>, <<"U+D835", "U+DC8C">>,
     <<"U+D835", "U+DC8D">>, <<"U+D835", "U+DC8E">>, <<"U+D835", "U+DC8F">>,
     <<"U+D835", "U+DC90">>, <<"U+D835", "U+DC91">>, <<"U+D835", "U+DC92">>,
     <<"U+D835", "U+DC93">>, <<"U+D835", "U+DC94">>, <<"U+D835", "U+DC95">>,
     <<"U+D835", "U+DC96">>, <<"U+D835", "U+DC97">>, <<"U+D835", "U+DC98">>,
     <<"U+D835", "U+DC99">>, <<"U+D835", "U+DC9A">>, <<"U+D835", "U+DC9B">>,
     <<"U+D835", "U+DC9C">>, <<"U+D835", "U+DC9E">>, <<"U+D835", "U+DC9F">>,
     <<"U+D835", "U+DCA2">>, <<"U+D835", "U+DCA5">>, <<"U+D835", "U+DCA6">>,
     <<"U+D835", "U+DCA9">>, <<"U+D835", "U+DCAA">>, <<"U+D835", "U+DCAB">>,
     <<"U+D835", "U+DCAC">>, <<"U+D835", "U+DCAE">>, <<"U+D835", "U+DCAF">>,
     <<"U+D835", "U+DCB0">>, <<"U+D835", "U+DCB1">>, <<"U+D835", "U+DCB2">>,
     <<"U+D835", "U+DCB3">>, <<"U+D835", "U+DCB4">>, <<"U+D835", "U+DCB5">>,
     <<"U+D835", "U+DCB6">>, <<"U+D835", "U+DCB7">>, <<"U+D835", "U+DCB8">>,
     <<"U+D835", "U+DCB9">>, <<"U+D835", "U+DCBB">>, <<"U+D835", "U+DCBD">>,
     <<"U+D835", "U+DCBE">>, <<"U+D835", "U+DCBF">>, <<"U+D835", "U+DCC0">>,
     <<"U+D835", "U+DCC1">>, <<"U+D835", "U+DCC2">>, <<"U+D835", "U+DCC3">>,
     <<"U+D835", "U+DCC5">>, <<"U+D835", "U+DCC6">>, <<"U+D835", "U+DCC7">>,
     <<"U+D835", "U+DCC8">>, <<"U+D835", "U+DCC9">>, <<"U+D835", "U+DCCA">>,
     <<"U+D835", "U+DCCB">>, <<"U+D835", "U+DCCC">>, <<"U+D835", "U+DCCD">>,
     <<"U+D835", "U+DCCE">>, <<"U+D835", "U+DCCF">>, <<"U+D835", "U+DCD0">>,
     <<"U+D835", "U+DCD1">>, <<"U+D835", "U+DCD2">>, <<"U+D835", "U+DCD3">>,
     <<"U+D835", "U+DCD4">>, <<"U+D835", "U+DCD5">>, <<"U+D835", "U+DCD6">>,
     <<"U+D835", "U+DCD7">>, <<"U+D835", "U+DCD8">>, <<"U+D835", "U+DCD9">>,
     <<"U+D835", "U+DCDA">>, <<"U+D835", "U+DCDB">>, <<"U+D835", "U+DCDC">>,
     <<"U+D835", "U+DCDD">>, <<"U+D835", "U+DCDE">>, <<"U+D835", "U+DCDF">>,
     <<"U+D835", "U+DCE0">>, <<"U+D835", "U+DCE1">>, <<"U+D835", "U+DCE2">>,
     <<"U+D835", "U+DCE3">>, <<"U+D835", "U+DCE4">>, <<"U+D835", "U+DCE5">>,
     <<"U+D835", "U+DCE6">>, <<"U+D835", "U+DCE7">>, <<"U+D835", "U+DCE8">>,
     <<"U+D835", "U+DCE9">>, <<"U+D835", "U+DCEA">>, <<"U+D835", "U+DCEB">>,
     <<"U+D835", "U+DCEC">>, <<"U+D835", "U+DCED">>, <<"U+D835", "U+DCEE">>,
     <<"U+D835", "U+DCEF">>, <<"U+D835", "U+DCF0">>, <<"U+D835", "U+DCF1">>,
     <<"U+D835", "U+DCF2">>, <<"U+D835", "U+DCF3">>, <<"U+D835", "U+DCF4">>,
     <<"U+D835", "U+DCF5">>, <<"U+D835", "U+DCF6">>, <<"U+D835", "U+DCF7">>,
     <<"U+D835", "U+DCF8">>, <<"U+D835", "U+DCF9">>, <<"U+D835", "U+DCFA">>,
     <<"U+D835", "U+DCFB">>, <<"U+D835", "U+DCFC">>, <<"U+D835", "U+DCFD">>,
     <<"U+D835", "U+DCFE">>, <<"U+D835", "U+DCFF">>, <<"U+D835", "U+DD00">>,
     <<"U+D835", "U+DD01">>, <<"U+D835", "U+DD02">>, <<"U+D835", "U+DD03">>,
     <<"U+D835", "U+DD04">>, <<"U+D835", "U+DD05">>, <<"U+D835", "U+DD07">>,
     <<"U+D835", "U+DD08">>, <<"U+D835", "U+DD09">>, <<"U+D835", "U+DD0A">>,
     <<"U+D835", "U+DD0D">>, <<"U+D835", "U+DD0E">>, <<"U+D835", "U+DD0F">>,
     <<"U+D835", "U+DD10">>, <<"U+D835", "U+DD11">>, <<"U+D835", "U+DD12">>,
     <<"U+D835", "U+DD13">>, <<"U+D835", "U+DD14">>, <<"U+D835", "U+DD16">>,
     <<"U+D835", "U+DD17">>, <<"U+D835", "U+DD18">>, <<"U+D835", "U+DD19">>,
     <<"U+D835", "U+DD1A">>, <<"U+D835", "U+DD1B">>, <<"U+D835", "U+DD1C">>,
     <<"U+D835", "U+DD1E">>, <<"U+D835", "U+DD1F">>, <<"U+D835", "U+DD20">>,
     <<"U+D835", "U+DD21">>, <<"U+D835", "U+DD22">>, <<"U+D835", "U+DD23">>,
     <<"U+D835", "U+DD24">>, <<"U+D835", "U+DD25">>, <<"U+D835", "U+DD26">>,
     <<"U+D835", "U+DD27">>, <<"U+D835", "U+DD28">>, <<"U+D835", "U+DD29">>,
     <<"U+D835", "U+DD2A">>, <<"U+D835", "U+DD2B">>, <<"U+D835", "U+DD2C">>,
     <<"U+D835", "U+DD2D">>, <<"U+D835", "U+DD2E">>, <<"U+D835", "U+DD2F">>,
     <<"U+D835", "U+DD30">>, <<"U+D835", "U+DD31">>, <<"U+D835", "U+DD32">>,
     <<"U+D835", "U+DD33">>, <<"U+D835", "U+DD34">>, <<"U+D835", "U+DD35">>,
     <<"U+D835", "U+DD36">>, <<"U+D835", "U+DD37">>, <<"U+D835", "U+DD38">>,
     <<"U+D835", "U+DD39">>, <<"U+D835", "U+DD3B">>, <<"U+D835", "U+DD3C">>,
     <<"U+D835", "U+DD3D">>, <<"U+D835", "U+DD3E">>, <<"U+D835", "U+DD40">>,
     <<"U+D835", "U+DD41">>, <<"U+D835", "U+DD42">>, <<"U+D835", "U+DD43">>,
     <<"U+D835", "U+DD44">>, <<"U+D835", "U+DD46">>, <<"U+D835", "U+DD4A">>,
     <<"U+D835", "U+DD4B">>, <<"U+D835", "U+DD4C">>, <<"U+D835", "U+DD4D">>,
     <<"U+D835", "U+DD4E">>, <<"U+D835", "U+DD4F">>, <<"U+D835", "U+DD50">>,
     <<"U+D835", "U+DD52">>, <<"U+D835", "U+DD53">>, <<"U+D835", "U+DD54">>,
     <<"U+D835", "U+DD55">>, <<"U+D835", "U+DD56">>, <<"U+D835", "U+DD57">>,
     <<"U+D835", "U+DD58">>, <<"U+D835", "U+DD59">>, <<"U+D835", "U+DD5A">>,
     <<"U+D835", "U+DD5B">>, <<"U+D835", "U+DD5C">>, <<"U+D835", "U+DD5D">>,
     <<"U+D835", "U+DD5E">>, <<"U+D835", "U+DD5F">>, <<"U+D835", "U+DD60">>,
     <<"U+D835", "U+DD61">>, <<"U+D835", "U+DD62">>, <<"U+D835", "U+DD63">>,
     <<"U+D835", "U+DD64">>, <<"U+D835", "U+DD65">>, <<"U+D835", "U+DD66">>,
     <<"U+D835", "U+DD67">>, <<"U+D835", "U+DD68">>, <<"U+D835", "U+DD69">>,
     <<"U+D835", "U+DD6A">>, <<"U+D835", "U+DD6B">>, <<"U+D835", "U+DD6C">>,
     <<"U+D835", "U+DD6D">>, <<"U+D835", "U+DD6E">>, <<"U+D835", "U+DD6F">>,
     <<"U+D835", "U+DD70">>, <<"U+D835", "U+DD71">>, <<"U+D835", "U+DD72">>,
     <<"U+D835", "U+DD73">>, <<"U+D835", "U+DD74">>, <<"U+D835", "U+DD75">>,
     <<"U+D835", "U+DD76">>, <<"U+D835", "U+DD77">>, <<"U+D835", "U+DD78">>,
     <<"U+D835", "U+DD79">>, <<"U+D835", "U+DD7A">>, <<"U+D835", "U+DD7B">>,
     <<"U+D835", "U+DD7C">>, <<"U+D835", "U+DD7D">>, <<"U+D835", "U+DD7E">>,
     <<"U+D835", "U+DD7F">>, <<"U+D835", "U+DD80">>, <<"U+D835", "U+DD81">>,
     <<"U+D835", "U+DD82">>, <<"U+D835", "U+DD83">>, <<"U+D835", "U+DD84">>,
     <<"U+D835", "U+DD85">>, <<"U+D835", "U+DD86">>, <<"U+D835", "U+DD87">>,
     <<"U+D835", "U+DD88">>, <<"U+D835", "U+DD89">>, <<"U+D835", "U+DD8A">>,
     <<"U+D835", "U+DD8B">>, <<"U+D835", "U+DD8C">>, <<"U+D835", "U+DD8D">>,
     <<"U+D835", "U+DD8E">>, <<"U+D835", "U+DD8F">>, <<"U+D835", "U+DD90">>,
     <<"U+D835", "U+DD91">>, <<"U+D835", "U+DD92">>, <<"U+D835", "U+DD93">>,
     <<"U+D835", "U+DD94">>, <<"U+D835", "U+DD95">>, <<"U+D835", "U+DD96">>,
     <<"U+D835", "U+DD97">>, <<"U+D835", "U+DD98">>, <<"U+D835", "U+DD99">>,
     <<"U+D835", "U+DD9A">>, <<"U+D835", "U+DD9B">>, <<"U+D835", "U+DD9C">>,
     <<"U+D835", "U+DD9D">>, <<"U+D835", "U+DD9E">>, <<"U+D835", "U+DD9F">>,
     <<"U+D835", "U+DDA0">>, <<"U+D835", "U+DDA1">>, <<"U+D835", "U+DDA2">>,
     <<"U+D835", "U+DDA3">>, <<"U+D835", "U+DDA4">>, <<"U+D835", "U+DDA5">>,
     <<"U+D835", "U+DDA6">>, <<"U+D835", "U+DDA7">>, <<"U+D835", "U+DDA8">>,
     <<"U+D835", "U+DDA9">>, <<"U+D835", "U+DDAA">>, <<"U+D835", "U+DDAB">>,
     <<"U+D835", "U+DDAC">>, <<"U+D835", "U+DDAD">>, <<"U+D835", "U+DDAE">>,
     <<"U+D835", "U+DDAF">>, <<"U+D835", "U+DDB0">>, <<"U+D835", "U+DDB1">>,
     <<"U+D835", "U+DDB2">>, <<"U+D835", "U+DDB3">>, <<"U+D835", "U+DDB4">>,
     <<"U+D835", "U+DDB5">>, <<"U+D835", "U+DDB6">>, <<"U+D835", "U+DDB7">>,
     <<"U+D835", "U+DDB8">>, <<"U+D835", "U+DDB9">>, <<"U+D835", "U+DDBA">>,
     <<"U+D835", "U+DDBB">>, <<"U+D835", "U+DDBC">>, <<"U+D835", "U+DDBD">>,
     <<"U+D835", "U+DDBE">>, <<"U+D835", "U+DDBF">>, <<"U+D835", "U+DDC0">>,
     <<"U+D835", "U+DDC1">>, <<"U+D835", "U+DDC2">>, <<"U+D835", "U+DDC3">>,
     <<"U+D835", "U+DDC4">>, <<"U+D835", "U+DDC5">>, <<"U+D835", "U+DDC6">>,
     <<"U+D835", "U+DDC7">>, <<"U+D835", "U+DDC8">>, <<"U+D835", "U+DDC9">>,
     <<"U+D835", "U+DDCA">>, <<"U+D835", "U+DDCB">>, <<"U+D835", "U+DDCC">>,
     <<"U+D835", "U+DDCD">>, <<"U+D835", "U+DDCE">>, <<"U+D835", "U+DDCF">>,
     <<"U+D835", "U+DDD0">>, <<"U+D835", "U+DDD1">>, <<"U+D835", "U+DDD2">>,
     <<"U+D835", "U+DDD3">>, <<"U+D835", "U+DDD4">>, <<"U+D835", "U+DDD5">>,
     <<"U+D835", "U+DDD6">>, <<"U+D835", "U+DDD7">>, <<"U+D835", "U+DDD8">>,
     <<"U+D835", "U+DDD9">>, <<"U+D835", "U+DDDA">>, <<"U+D835", "U+DDDB">>,
     <<"U+D835", "U+DDDC">>, <<"U+D835", "U+DDDD">>, <<"U+D835", "U+DDDE">>,
     <<"U+D835", "U+DDDF">>, <<"U+D835", "U+DDE0">>, <<"U+D835", "U+DDE1">>,
     <<"U+D835", "U+DDE2">>, <<"U+D835", "U+DDE3">>, <<"U+D835", "U+DDE4">>,
     <<"U+D835", "U+DDE5">>, <<"U+D835", "U+DDE6">>, <<"U+D835", "U+DDE7">>,
     <<"U+D835", "U+DDE8">>, <<"U+D835", "U+DDE9">>, <<"U+D835", "U+DDEA">>,
     <<"U+D835", "U+DDEB">>, <<"U+D835", "U+DDEC">>, <<"U+D835", "U+DDED">>,
     <<"U+D835", "U+DDEE">>, <<"U+D835", "U+DDEF">>, <<"U+D835", "U+DDF0">>,
     <<"U+D835", "U+DDF1">>, <<"U+D835", "U+DDF2">>, <<"U+D835", "U+DDF3">>,
     <<"U+D835", "U+DDF4">>, <<"U+D835", "U+DDF5">>, <<"U+D835", "U+DDF6">>,
     <<"U+D835", "U+DDF7">>, <<"U+D835", "U+DDF8">>, <<"U+D835", "U+DDF9">>,
     <<"U+D835", "U+DDFA">>, <<"U+D835", "U+DDFB">>, <<"U+D835", "U+DDFC">>,
     <<"U+D835", "U+DDFD">>, <<"U+D835", "U+DDFE">>, <<"U+D835", "U+DDFF">>,
     <<"U+D835", "U+DE00">>, <<"U+D835", "U+DE01">>, <<"U+D835", "U+DE02">>,
     <<"U+D835", "U+DE03">>, <<"U+D835", "U+DE04">>, <<"U+D835", "U+DE05">>,
     <<"U+D835", "U+DE06">>, <<"U+D835", "U+DE07">>, <<"U+D835", "U+DE08">>,
     <<"U+D835", "U+DE09">>, <<"U+D835", "U+DE0A">>, <<"U+D835", "U+DE0B">>,
     <<"U+D835", "U+DE0C">>, <<"U+D835", "U+DE0D">>, <<"U+D835", "U+DE0E">>,
     <<"U+D835", "U+DE0F">>, <<"U+D835", "U+DE10">>, <<"U+D835", "U+DE11">>,
     <<"U+D835", "U+DE12">>, <<"U+D835", "U+DE13">>, <<"U+D835", "U+DE14">>,
     <<"U+D835", "U+DE15">>, <<"U+D835", "U+DE16">>, <<"U+D835", "U+DE17">>,
     <<"U+D835", "U+DE18">>, <<"U+D835", "U+DE19">>, <<"U+D835", "U+DE1A">>,
     <<"U+D835", "U+DE1B">>, <<"U+D835", "U+DE1C">>, <<"U+D835", "U+DE1D">>,
     <<"U+D835", "U+DE1E">>, <<"U+D835", "U+DE1F">>, <<"U+D835", "U+DE20">>,
     <<"U+D835", "U+DE21">>, <<"U+D835", "U+DE22">>, <<"U+D835", "U+DE23">>,
     <<"U+D835", "U+DE24">>, <<"U+D835", "U+DE25">>, <<"U+D835", "U+DE26">>,
     <<"U+D835", "U+DE27">>, <<"U+D835", "U+DE28">>, <<"U+D835", "U+DE29">>,
     <<"U+D835", "U+DE2A">>, <<"U+D835", "U+DE2B">>, <<"U+D835", "U+DE2C">>,
     <<"U+D835", "U+DE2D">>, <<"U+D835", "U+DE2E">>, <<"U+D835", "U+DE2F">>,
     <<"U+D835", "U+DE30">>, <<"U+D835", "U+DE31">>, <<"U+D835", "U+DE32">>,
     <<"U+D835", "U+DE33">>, <<"U+D835", "U+DE34">>, <<"U+D835", "U+DE35">>,
     <<"U+D835", "U+DE36">>, <<"U+D835", "U+DE37">>, <<"U+D835", "U+DE38">>,
     <<"U+D835", "U+DE39">>, <<"U+D835", "U+DE3A">>, <<"U+D835", "U+DE3B">>,
     <<"U+D835", "U+DE3C">>, <<"U+D835", "U+DE3D">>, <<"U+D835", "U+DE3E">>,
     <<"U+D835", "U+DE3F">>, <<"U+D835", "U+DE40">>, <<"U+D835", "U+DE41">>,
     <<"U+D835", "U+DE42">>, <<"U+D835", "U+DE43">>, <<"U+D835", "U+DE44">>,
     <<"U+D835", "U+DE45">>, <<"U+D835", "U+DE46">>, <<"U+D835", "U+DE47">>,
     <<"U+D835", "U+DE48">>, <<"U+D835", "U+DE49">>, <<"U+D835", "U+DE4A">>,
     <<"U+D835", "U+DE4B">>, <<"U+D835", "U+DE4C">>, <<"U+D835", "U+DE4D">>,
     <<"U+D835", "U+DE4E">>, <<"U+D835", "U+DE4F">>, <<"U+D835", "U+DE50">>,
     <<"U+D835", "U+DE51">>, <<"U+D835", "U+DE52">>, <<"U+D835", "U+DE53">>,
     <<"U+D835", "U+DE54">>, <<"U+D835", "U+DE55">>, <<"U+D835", "U+DE56">>,
     <<"U+D835", "U+DE57">>, <<"U+D835", "U+DE58">>, <<"U+D835", "U+DE59">>,
     <<"U+D835", "U+DE5A">>, <<"U+D835", "U+DE5B">>, <<"U+D835", "U+DE5C">>,
     <<"U+D835", "U+DE5D">>, <<"U+D835", "U+DE5E">>, <<"U+D835", "U+DE5F">>,
     <<"U+D835", "U+DE60">>, <<"U+D835", "U+DE61">>, <<"U+D835", "U+DE62">>,
     <<"U+D835", "U+DE63">>, <<"U+D835", "U+DE64">>, <<"U+D835", "U+DE65">>,
     <<"U+D835", "U+DE66">>, <<"U+D835", "U+DE67">>, <<"U+D835", "U+DE68">>,
     <<"U+D835", "U+DE69">>, <<"U+D835", "U+DE6A">>, <<"U+D835", "U+DE6B">>,
     <<"U+D835", "U+DE6C">>, <<"U+D835", "U+DE6D">>, <<"U+D835", "U+DE6E">>,
     <<"U+D835", "U+DE6F">>, <<"U+D835", "U+DE70">>, <<"U+D835", "U+DE71">>,
     <<"U+D835", "U+DE72">>, <<"U+D835", "U+DE73">>, <<"U+D835", "U+DE74">>,
     <<"U+D835", "U+DE75">>, <<"U+D835", "U+DE76">>, <<"U+D835", "U+DE77">>,
     <<"U+D835", "U+DE78">>, <<"U+D835", "U+DE79">>, <<"U+D835", "U+DE7A">>,
     <<"U+D835", "U+DE7B">>, <<"U+D835", "U+DE7C">>, <<"U+D835", "U+DE7D">>,
     <<"U+D835", "U+DE7E">>, <<"U+D835", "U+DE7F">>, <<"U+D835", "U+DE80">>,
     <<"U+D835", "U+DE81">>, <<"U+D835", "U+DE82">>, <<"U+D835", "U+DE83">>,
     <<"U+D835", "U+DE84">>, <<"U+D835", "U+DE85">>, <<"U+D835", "U+DE86">>,
     <<"U+D835", "U+DE87">>, <<"U+D835", "U+DE88">>, <<"U+D835", "U+DE89">>,
     <<"U+D835", "U+DE8A">>, <<"U+D835", "U+DE8B">>, <<"U+D835", "U+DE8C">>,
     <<"U+D835", "U+DE8D">>, <<"U+D835", "U+DE8E">>, <<"U+D835", "U+DE8F">>,
     <<"U+D835", "U+DE90">>, <<"U+D835", "U+DE91">>, <<"U+D835", "U+DE92">>,
     <<"U+D835", "U+DE93">>, <<"U+D835", "U+DE94">>, <<"U+D835", "U+DE95">>,
     <<"U+D835", "U+DE96">>, <<"U+D835", "U+DE97">>, <<"U+D835", "U+DE98">>,
     <<"U+D835", "U+DE99">>, <<"U+D835", "U+DE9A">>, <<"U+D835", "U+DE9B">>,
     <<"U+D835", "U+DE9C">>, <<"U+D835", "U+DE9D">>, <<"U+D835", "U+DE9E">>,
     <<"U+D835", "U+DE9F">>, <<"U+D835", "U+DEA0">>, <<"U+D835", "U+DEA1">>,
     <<"U+D835", "U+DEA2">>, <<"U+D835", "U+DEA3">>, <<"U+D835", "U+DEA4">>,
     <<"U+D835", "U+DEA5">>, <<"U+D835", "U+DEA8">>, <<"U+D835", "U+DEA9">>,
     <<"U+D835", "U+DEAA">>, <<"U+D835", "U+DEAB">>, <<"U+D835", "U+DEAC">>,
     <<"U+D835", "U+DEAD">>, <<"U+D835", "U+DEAE">>, <<"U+D835", "U+DEAF">>,
     <<"U+D835", "U+DEB0">>, <<"U+D835", "U+DEB1">>, <<"U+D835", "U+DEB2">>,
     <<"U+D835", "U+DEB3">>, <<"U+D835", "U+DEB4">>, <<"U+D835", "U+DEB5">>,
     <<"U+D835", "U+DEB6">>, <<"U+D835", "U+DEB7">>, <<"U+D835", "U+DEB8">>,
     <<"U+D835", "U+DEB9">>, <<"U+D835", "U+DEBA">>, <<"U+D835", "U+DEBB">>,
     <<"U+D835", "U+DEBC">>, <<"U+D835", "U+DEBD">>, <<"U+D835", "U+DEBE">>,
     <<"U+D835", "U+DEBF">>, <<"U+D835", "U+DEC0">>, <<"U+D835", "U+DEC2">>,
     <<"U+D835", "U+DEC3">>, <<"U+D835", "U+DEC4">>, <<"U+D835", "U+DEC5">>,
     <<"U+D835", "U+DEC6">>, <<"U+D835", "U+DEC7">>, <<"U+D835", "U+DEC8">>,
     <<"U+D835", "U+DEC9">>, <<"U+D835", "U+DECA">>, <<"U+D835", "U+DECB">>,
     <<"U+D835", "U+DECC">>, <<"U+D835", "U+DECD">>, <<"U+D835", "U+DECE">>,
     <<"U+D835", "U+DECF">>, <<"U+D835", "U+DED0">>, <<"U+D835", "U+DED1">>,
     <<"U+D835", "U+DED2">>, <<"U+D835", "U+DED3">>, <<"U+D835", "U+DED4">>,
     <<"U+D835", "U+DED5">>, <<"U+D835", "U+DED6">>, <<"U+D835", "U+DED7">>,
     <<"U+D835", "U+DED8">>, <<"U+D835", "U+DED9">>, <<"U+D835", "U+DEDA">>,
     <<"U+D835", "U+DEDC">>, <<"U+D835", "U+DEDD">>, <<"U+D835", "U+DEDE">>,
     <<"U+D835", "U+DEDF">>, <<"U+D835", "U+DEE0">>, <<"U+D835", "U+DEE1">>,
     <<"U+D835", "U+DEE2">>, <<"U+D835", "U+DEE3">>, <<"U+D835", "U+DEE4">>,
     <<"U+D835", "U+DEE5">>, <<"U+D835", "U+DEE6">>, <<"U+D835", "U+DEE7">>,
     <<"U+D835", "U+DEE8">>, <<"U+D835", "U+DEE9">>, <<"U+D835", "U+DEEA">>,
     <<"U+D835", "U+DEEB">>, <<"U+D835", "U+DEEC">>, <<"U+D835", "U+DEED">>,
     <<"U+D835", "U+DEEE">>, <<"U+D835", "U+DEEF">>, <<"U+D835", "U+DEF0">>,
     <<"U+D835", "U+DEF1">>, <<"U+D835", "U+DEF2">>, <<"U+D835", "U+DEF3">>,
     <<"U+D835", "U+DEF4">>, <<"U+D835", "U+DEF5">>, <<"U+D835", "U+DEF6">>,
     <<"U+D835", "U+DEF7">>, <<"U+D835", "U+DEF8">>, <<"U+D835", "U+DEF9">>,
     <<"U+D835", "U+DEFA">>, <<"U+D835", "U+DEFC">>, <<"U+D835", "U+DEFD">>,
     <<"U+D835", "U+DEFE">>, <<"U+D835", "U+DEFF">>, <<"U+D835", "U+DF00">>,
     <<"U+D835", "U+DF01">>, <<"U+D835", "U+DF02">>, <<"U+D835", "U+DF03">>,
     <<"U+D835", "U+DF04">>, <<"U+D835", "U+DF05">>, <<"U+D835", "U+DF06">>,
     <<"U+D835", "U+DF07">>, <<"U+D835", "U+DF08">>, <<"U+D835", "U+DF09">>,
     <<"U+D835", "U+DF0A">>, <<"U+D835", "U+DF0B">>, <<"U+D835", "U+DF0C">>,
     <<"U+D835", "U+DF0D">>, <<"U+D835", "U+DF0E">>, <<"U+D835", "U+DF0F">>,
     <<"U+D835", "U+DF10">>, <<"U+D835", "U+DF11">>, <<"U+D835", "U+DF12">>,
     <<"U+D835", "U+DF13">>, <<"U+D835", "U+DF14">>, <<"U+D835", "U+DF16">>,
     <<"U+D835", "U+DF17">>, <<"U+D835", "U+DF18">>, <<"U+D835", "U+DF19">>,
     <<"U+D835", "U+DF1A">>, <<"U+D835", "U+DF1B">>, <<"U+D835", "U+DF1C">>,
     <<"U+D835", "U+DF1D">>, <<"U+D835", "U+DF1E">>, <<"U+D835", "U+DF1F">>,
     <<"U+D835", "U+DF20">>, <<"U+D835", "U+DF21">>, <<"U+D835", "U+DF22">>,
     <<"U+D835", "U+DF23">>, <<"U+D835", "U+DF24">>, <<"U+D835", "U+DF25">>,
     <<"U+D835", "U+DF26">>, <<"U+D835", "U+DF27">>, <<"U+D835", "U+DF28">>,
     <<"U+D835", "U+DF29">>, <<"U+D835", "U+DF2A">>, <<"U+D835", "U+DF2B">>,
     <<"U+D835", "U+DF2C">>, <<"U+D835", "U+DF2D">>, <<"U+D835", "U+DF2E">>,
     <<"U+D835", "U+DF2F">>, <<"U+D835", "U+DF30">>, <<"U+D835", "U+DF31">>,
     <<"U+D835", "U+DF32">>, <<"U+D835", "U+DF33">>, <<"U+D835", "U+DF34">>,
     <<"U+D835", "U+DF36">>, <<"U+D835", "U+DF37">>, <<"U+D835", "U+DF38">>,
     <<"U+D835", "U+DF39">>, <<"U+D835", "U+DF3A">>, <<"U+D835", "U+DF3B">>,
     <<"U+D835", "U+DF3C">>, <<"U+D835", "U+DF3D">>, <<"U+D835", "U+DF3E">>,
     <<"U+D835", "U+DF3F">>, <<"U+D835", "U+DF40">>, <<"U+D835", "U+DF41">>,
     <<"U+D835", "U+DF42">>, <<"U+D835", "U+DF43">>, <<"U+D835", "U+DF44">>,
     <<"U+D835", "U+DF45">>, <<"U+D835", "U+DF46">>, <<"U+D835", "U+DF47">>,
     <<"U+D835", "U+DF48">>, <<"U+D835", "U+DF49">>, <<"U+D835", "U+DF4A">>,
     <<"U+D835", "U+DF4B">>, <<"U+D835", "U+DF4C">>, <<"U+D835", "U+DF4D">>,
     <<"U+D835", "U+DF4E">>, <<"U+D835", "U+DF50">>, <<"U+D835", "U+DF51">>,
     <<"U+D835", "U+DF52">>, <<"U+D835", "U+DF53">>, <<"U+D835", "U+DF54">>,
     <<"U+D835", "U+DF55">>, <<"U+D835", "U+DF56">>, <<"U+D835", "U+DF57">>,
     <<"U+D835", "U+DF58">>, <<"U+D835", "U+DF59">>, <<"U+D835", "U+DF5A">>,
     <<"U+D835", "U+DF5B">>, <<"U+D835", "U+DF5C">>, <<"U+D835", "U+DF5D">>,
     <<"U+D835", "U+DF5E">>, <<"U+D835", "U+DF5F">>, <<"U+D835", "U+DF60">>,
     <<"U+D835", "U+DF61">>, <<"U+D835", "U+DF62">>, <<"U+D835", "U+DF63">>,
     <<"U+D835", "U+DF64">>, <<"U+D835", "U+DF65">>, <<"U+D835", "U+DF66">>,
     <<"U+D835", "U+DF67">>, <<"U+D835", "U+DF68">>, <<"U+D835", "U+DF69">>,
     <<"U+D835", "U+DF6A">>, <<"U+D835", "U+DF6B">>, <<"U+D835", "U+DF6C">>,
     <<"U+D835", "U+DF6D">>, <<"U+D835", "U+DF6E">>, <<"U+D835", "U+DF70">>,
     <<"U+D835", "U+DF71">>, <<"U+D835", "U+DF72">>, <<"U+D835", "U+DF73">>,
     <<"U+D835", "U+DF74">>, <<"U+D835", "U+DF75">>, <<"U+D835", "U+DF76">>,
     <<"U+D835", "U+DF77">>, <<"U+D835", "U+DF78">>, <<"U+D835", "U+DF79">>,
     <<"U+D835", "U+DF7A">>, <<"U+D835", "U+DF7B">>, <<"U+D835", "U+DF7C">>,
     <<"U+D835", "U+DF7D">>, <<"U+D835", "U+DF7E">>, <<"U+D835", "U+DF7F">>,
     <<"U+D835", "U+DF80">>, <<"U+D835", "U+DF81">>, <<"U+D835", "U+DF82">>,
     <<"U+D835", "U+DF83">>, <<"U+D835", "U+DF84">>, <<"U+D835", "U+DF85">>,
     <<"U+D835", "U+DF86">>, <<"U+D835", "U+DF87">>, <<"U+D835", "U+DF88">>,
     <<"U+D835", "U+DF8A">>, <<"U+D835", "U+DF8B">>, <<"U+D835", "U+DF8C">>,
     <<"U+D835", "U+DF8D">>, <<"U+D835", "U+DF8E">>, <<"U+D835", "U+DF8F">>,
     <<"U+D835", "U+DF90">>, <<"U+D835", "U+DF91">>, <<"U+D835", "U+DF92">>,
     <<"U+D835", "U+DF93">>, <<"U+D835", "U+DF94">>, <<"U+D835", "U+DF95">>,
     <<"U+D835", "U+DF96">>, <<"U+D835", "U+DF97">>, <<"U+D835", "U+DF98">>,
     <<"U+D835", "U+DF99">>, <<"U+D835", "U+DF9A">>, <<"U+D835", "U+DF9B">>,
     <<"U+D835", "U+DF9C">>, <<"U+D835", "U+DF9D">>, <<"U+D835", "U+DF9E">>,
     <<"U+D835", "U+DF9F">>, <<"U+D835", "U+DFA0">>, <<"U+D835", "U+DFA1">>,
     <<"U+D835", "U+DFA2">>, <<"U+D835", "U+DFA3">>, <<"U+D835", "U+DFA4">>,
     <<"U+D835", "U+DFA5">>, <<"U+D835", "U+DFA6">>, <<"U+D835", "U+DFA7">>,
     <<"U+D835", "U+DFA8">>, <<"U+D835", "U+DFAA">>, <<"U+D835", "U+DFAB">>,
     <<"U+D835", "U+DFAC">>, <<"U+D835", "U+DFAD">>, <<"U+D835", "U+DFAE">>,
     <<"U+D835", "U+DFAF">>, <<"U+D835", "U+DFB0">>, <<"U+D835", "U+DFB1">>,
     <<"U+D835", "U+DFB2">>, <<"U+D835", "U+DFB3">>, <<"U+D835", "U+DFB4">>,
     <<"U+D835", "U+DFB5">>, <<"U+D835", "U+DFB6">>, <<"U+D835", "U+DFB7">>,
     <<"U+D835", "U+DFB8">>, <<"U+D835", "U+DFB9">>, <<"U+D835", "U+DFBA">>,
     <<"U+D835", "U+DFBB">>, <<"U+D835", "U+DFBC">>, <<"U+D835", "U+DFBD">>,
     <<"U+D835", "U+DFBE">>, <<"U+D835", "U+DFBF">>, <<"U+D835", "U+DFC0">>,
     <<"U+D835", "U+DFC1">>, <<"U+D835", "U+DFC2">>, <<"U+D835", "U+DFC4">>,
     <<"U+D835", "U+DFC5">>, <<"U+D835", "U+DFC6">>, <<"U+D835", "U+DFC7">>,
     <<"U+D835", "U+DFC8">>, <<"U+D835", "U+DFC9">>, <<"U+D835", "U+DFCA">>,
     <<"U+D835", "U+DFCB">>, <<"U+D837", "U+DF00">>, <<"U+D837", "U+DF01">>,
     <<"U+D837", "U+DF02">>, <<"U+D837", "U+DF03">>, <<"U+D837", "U+DF04">>,
     <<"U+D837", "U+DF05">>, <<"U+D837", "U+DF06">>, <<"U+D837", "U+DF07">>,
     <<"U+D837", "U+DF08">>, <<"U+D837", "U+DF09">>, <<"U+D837", "U+DF0B">>,
     <<"U+D837", "U+DF0C">>, <<"U+D837", "U+DF0D">>, <<"U+D837", "U+DF0E">>,
     <<"U+D837", "U+DF0F">>, <<"U+D837", "U+DF10">>, <<"U+D837", "U+DF11">>,
     <<"U+D837", "U+DF12">>, <<"U+D837", "U+DF13">>, <<"U+D837", "U+DF14">>,
     <<"U+D837", "U+DF15">>, <<"U+D837", "U+DF16">>, <<"U+D837", "U+DF17">>,
     <<"U+D837", "U+DF18">>, <<"U+D837", "U+DF19">>, <<"U+D837", "U+DF1A">>,
     <<"U+D837", "U+DF1B">>, <<"U+D837", "U+DF1C">>, <<"U+D837", "U+DF1D">>,
     <<"U+D837", "U+DF1E">>, <<"U+D837", "U+DF25">>, <<"U+D837", "U+DF26">>,
     <<"U+D837", "U+DF27">>, <<"U+D837", "U+DF28">>, <<"U+D837", "U+DF29">>,
     <<"U+D837", "U+DF2A">>, <<"U+D838", "U+DC30">>, <<"U+D838", "U+DC31">>,
     <<"U+D838", "U+DC32">>, <<"U+D838", "U+DC33">>, <<"U+D838", "U+DC34">>,
     <<"U+D838", "U+DC35">>, <<"U+D838", "U+DC36">>, <<"U+D838", "U+DC37">>,
     <<"U+D838", "U+DC38">>, <<"U+D838", "U+DC39">>, <<"U+D838", "U+DC3A">>,
     <<"U+D838", "U+DC3B">>, <<"U+D838", "U+DC3C">>, <<"U+D838", "U+DC3D">>,
     <<"U+D838", "U+DC3E">>, <<"U+D838", "U+DC3F">>, <<"U+D838", "U+DC40">>,
     <<"U+D838", "U+DC41">>, <<"U+D838", "U+DC42">>, <<"U+D838", "U+DC43">>,
     <<"U+D838", "U+DC44">>, <<"U+D838", "U+DC45">>, <<"U+D838", "U+DC46">>,
     <<"U+D838", "U+DC47">>, <<"U+D838", "U+DC48">>, <<"U+D838", "U+DC49">>,
     <<"U+D838", "U+DC4A">>, <<"U+D838", "U+DC4B">>, <<"U+D838", "U+DC4C">>,
     <<"U+D838", "U+DC4D">>, <<"U+D838", "U+DC4E">>, <<"U+D838", "U+DC4F">>,
     <<"U+D838", "U+DC50">>, <<"U+D838", "U+DC51">>, <<"U+D838", "U+DC52">>,
     <<"U+D838", "U+DC53">>, <<"U+D838", "U+DC54">>, <<"U+D838", "U+DC55">>,
     <<"U+D838", "U+DC56">>, <<"U+D838", "U+DC57">>, <<"U+D838", "U+DC58">>,
     <<"U+D838", "U+DC59">>, <<"U+D838", "U+DC5A">>, <<"U+D838", "U+DC5B">>,
     <<"U+D838", "U+DC5C">>, <<"U+D838", "U+DC5D">>, <<"U+D838", "U+DC5E">>,
     <<"U+D838", "U+DC5F">>, <<"U+D838", "U+DC60">>, <<"U+D838", "U+DC61">>,
     <<"U+D838", "U+DC62">>, <<"U+D838", "U+DC63">>, <<"U+D838", "U+DC64">>,
     <<"U+D838", "U+DC65">>, <<"U+D838", "U+DC66">>, <<"U+D838", "U+DC67">>,
     <<"U+D838", "U+DC68">>, <<"U+D838", "U+DC69">>, <<"U+D838", "U+DC6A">>,
     <<"U+D838", "U+DC6B">>, <<"U+D838", "U+DC6C">>, <<"U+D838", "U+DC6D">>,
     <<"U+D83C", "U+DD30">>, <<"U+D83C", "U+DD31">>, <<"U+D83C", "U+DD32">>,
     <<"U+D83C", "U+DD33">>, <<"U+D83C", "U+DD34">>, <<"U+D83C", "U+DD35">>,
     <<"U+D83C", "U+DD36">>, <<"U+D83C", "U+DD37">>, <<"U+D83C", "U+DD38">>,
     <<"U+D83C", "U+DD39">>, <<"U+D83C", "U+DD3A">>, <<"U+D83C", "U+DD3B">>,
     <<"U+D83C", "U+DD3C">>, <<"U+D83C", "U+DD3D">>, <<"U+D83C", "U+DD3E">>,
     <<"U+D83C", "U+DD3F">>, <<"U+D83C", "U+DD40">>, <<"U+D83C", "U+DD41">>,
     <<"U+D83C", "U+DD42">>, <<"U+D83C", "U+DD43">>, <<"U+D83C", "U+DD44">>,
     <<"U+D83C", "U+DD45">>, <<"U+D83C", "U+DD46">>, <<"U+D83C", "U+DD47">>,
     <<"U+D83C", "U+DD48">>, <<"U+D83C", "U+DD49">>, <<"U+D83C", "U+DD50">>,
     <<"U+D83C", "U+DD51">>, <<"U+D83C", "U+DD52">>, <<"U+D83C", "U+DD53">>,
     <<"U+D83C", "U+DD54">>, <<"U+D83C", "U+DD55">>, <<"U+D83C", "U+DD56">>,
     <<"U+D83C", "U+DD57">>, <<"U+D83C", "U+DD58">>, <<"U+D83C", "U+DD59">>,
     <<"U+D83C", "U+DD5A">>, <<"U+D83C", "U+DD5B">>, <<"U+D83C", "U+DD5C">>,
     <<"U+D83C", "U+DD5D">>, <<"U+D83C", "U+DD5E">>, <<"U+D83C", "U+DD5F">>,
     <<"U+D83C", "U+DD60">>, <<"U+D83C", "U+DD61">>, <<"U+D83C", "U+DD62">>,
     <<"U+D83C", "U+DD63">>, <<"U+D83C", "U+DD64">>, <<"U+D83C", "U+DD65">>,
     <<"U+D83C", "U+DD66">>, <<"U+D83C", "U+DD67">>, <<"U+D83C", "U+DD68">>,
     <<"U+D83C", "U+DD69">>, <<"U+D83C", "U+DD70">>, <<"U+D83C", "U+DD71">>,
     <<"U+D83C", "U+DD72">>, <<"U+D83C", "U+DD73">>, <<"U+D83C", "U+DD74">>,
     <<"U+D83C", "U+DD75">>, <<"U+D83C", "U+DD76">>, <<"U+D83C", "U+DD77">>,
     <<"U+D83C", "U+DD78">>, <<"U+D83C", "U+DD79">>, <<"U+D83C", "U+DD7A">>,
     <<"U+D83C", "U+DD7B">>, <<"U+D83C", "U+DD7C">>, <<"U+D83C", "U+DD7D">>,
     <<"U+D83C", "U+DD7E">>, <<"U+D83C", "U+DD7F">>, <<"U+D83C", "U+DD80">>,
     <<"U+D83C", "U+DD81">>, <<"U+D83C", "U+DD82">>, <<"U+D83C", "U+DD83">>,
     <<"U+D83C", "U+DD84">>, <<"U+D83C", "U+DD85">>, <<"U+D83C", "U+DD86">>,
     <<"U+D83C", "U+DD87">>, <<"U+D83C", "U+DD88">>, <<"U+D83C", "U+DD89">>}

\* the property Cased
Cased(c) == c \in UpperCaseLetters \cup LowerCaseLetters \cup OtherCased

CasedPair(s, i) ==
    /\ 1 <= i
    /\ i < Len(s)
    /\ <<s[i], s[i + 1]>> \in
           UpperCasePairLetters \cup LowerCasePairLetters \cup OtherCasedPairs

\* the property Case_Ignorable: the code points that do not count when the
\* neighbours of a sigma are looked at
CaseIgnorable ==
    {"'", ".", ":", "^", "U+0060", "¨", "U+00A8", "­", "U+00AD", "¯", "U+00AF",
     "´", "U+00B4", "·", "U+00B7", "¸", "U+00B8", "ʰ", "U+02B0", "ʱ", "U+02B1",
     "ʲ", "U+02B2", "ʳ", "U+02B3", "ʴ", "U+02B4", "ʵ", "U+02B5", "ʶ", "U+02B6",
     "ʷ", "U+02B7", "ʸ", "U+02B8", "ʹ", "U+02B9", "ʺ", "U+02BA", "ʻ", "U+02BB",
     "ʼ", "U+02BC", "ʽ", "U+02BD", "ʾ", "U+02BE", "ʿ", "U+02BF", "ˀ", "U+02C0",
     "ˁ", "U+02C1", "˂", "U+02C2", "˃", "U+02C3", "˄", "U+02C4", "˅", "U+02C5",
     "ˆ", "U+02C6", "ˇ", "U+02C7", "ˈ", "U+02C8", "ˉ", "U+02C9", "ˊ", "U+02CA",
     "ˋ", "U+02CB", "ˌ", "U+02CC", "ˍ", "U+02CD", "ˎ", "U+02CE", "ˏ", "U+02CF",
     "ː", "U+02D0", "ˑ", "U+02D1", "˒", "U+02D2", "˓", "U+02D3", "˔", "U+02D4",
     "˕", "U+02D5", "˖", "U+02D6", "˗", "U+02D7", "˘", "U+02D8", "˙", "U+02D9",
     "˚", "U+02DA", "˛", "U+02DB", "˜", "U+02DC", "˝", "U+02DD", "˞", "U+02DE",
     "˟", "U+02DF", "ˠ", "U+02E0", "ˡ", "U+02E1", "ˢ", "U+02E2", "ˣ", "U+02E3",
     "ˤ", "U+02E4", "˥", "U+02E5", "˦", "U+02E6", "˧", "U+02E7", "˨", "U+02E8",
     "˩", "U+02E9", "˪", "U+02EA", "˫", "U+02EB", "ˬ", "U+02EC", "˭", "U+02ED",
     "ˮ", "U+02EE", "˯", "U+02EF", "˰", "U+02F0", "˱", "U+02F1", "˲", "U+02F2",
     "˳", "U+02F3", "˴", "U+02F4", "˵", "U+02F5", "˶", "U+02F6", "˷", "U+02F7",
     "˸", "U+02F8", "˹", "U+02F9", "˺", "U+02FA", "˻", "U+02FB", "˼", "U+02FC",
     "˽", "U+02FD", "˾", "U+02FE", "˿", "U+02FF", "U+0300", "U+0301", "U+0302",
     "U+0303", "U+0304", "U+0305", "U+0306", "U+0307", "U+0308", "U+0309",
     "U+030A", "U+030B", "U+030C", "U+030D", "U+030E", "U+030F", "U+0310",
     "U+0311", "U+0312", "U+0313", "U+0314", "U+0315", "U+0316", "U+0317",
     "U+0318", "U+0319", "U+031A", "U+031B", "U+031C", "U+031D", "U+031E",
     "U+031F", "U+0320", "U+0321", "U+0322", "U+0323", "U+0324", "U+0325",
     "U+0326", "U+0327", "U+0328", "U+0329", "U+032A", "U+032B", "U+032C",
     "U+032D", "U+032E", "U+032F", "U+0330", "U+0331", "U+0332", "U+0333",
     "U+0334", "U+0335", "U+0336", "U+0337", "U+0338", "U+0339", "U+033A",
     "U+033B", "U+033C", "U+033D", "U+033E", "U+033F", "U+0340", "U+0341",
     "U+0342", "U+0343", "U+0344", "U+0345", "U+0346", "U+0347", "U+0348",
     "U+0349", "U+034A", "U+034B", "U+034C", "U+034D", "U+034E", "U+034F",
     "U+0350", "U+0351", "U+0352", "U+0353", "U+0354", "U+0355", "U+0356",
     "U+0357", "U+0358", "U+0359", "U+035A", "U+035B", "U+035C", "U+035D",
     "U+035E", "U+035F", "U+0360", "U+0361", "U+0362", "U+0363", "U+0364",
     "U+0365", "U+0366", "U+0367", "U+0368", "U+0369", "U+036A", "U+036B",
     "U+036C", "U+036D", "U+036E", "U+036F", "U+0374", "U+0375", "U+037A", "΄",
     "U+0384", "΅", "U+0385", "·", "U+0387", "U+0483", "U+0484", "U+0485",
     "U+0486", "U+0487", "U+0488", "U+0489", "U+0559", "U+055F", "U+0591",
     "U+0592", "U+0593", "U+0594", "U+0595", "U+0596", "U+0597", "U+0598",
     "U+0599", "U+059A", "U+059B", "U+059C", "U+059D", "U+059E", "U+059F",
     "U+05A0", "U+05A1", "U+05A2", "U+05A3", "U+05A4", "U+05A5", "U+05A6",
     "U+05A7", "U+05A8", "U+05A9", "U+05AA", "U+05AB", "U+05AC", "U+05AD",
     "U+05AE", "U+05AF", "U+05B0", "U+05B1", "U+05B2", "U+05B3", "U+05B4",
     "U+05B5", "U+05B6", "U+05B7", "U+05B8", "U+05B9", "U+05BA", "U+05BB",
     "U+05BC", "U+05BD", "U+05BF", "U+05C1", "U+05C2", "U+05C4", "U+05C5",
     "U+05C7", "״", "U+05F4", "U+0600", "U+0601", "U+0602", "U+0603", "U+0604",
     "U+0605", "U+0610", "U+0611", "U+0612", "U+0613", "U+0614", "U+0615",
     "U+0616", "U+0617", "U+0618", "U+0619", "U+061A", "U+061C", "U+0640",
     "U+064B", "U+064C", "U+064D", "U+064E", "U+064F", "U+0650", "U+0651",
     "U+0652", "U+0653", "U+0654", "U+0655", "U+0656", "U+0657", "U+0658",
     "U+0659", "U+065A", "U+065B", "U+065C", "U+065D", "U+065E", "U+065F",
     "U+0670", "U+06D6", "U+06D7", "U+06D8", "U+06D9", "U+06DA", "U+06DB",
     "U+06DC", "U+06DD", "U+06DF", "U+06E0", "U+06E1", "U+06E2", "U+06E3",
     "U+06E4", "ۥ", "U+06E5", "ۦ", "U+06E6", "U+06E7", "U+06E8", "U+06EA",
     "U+06EB", "U+06EC", "U+06ED", "U+070F", "U+0711", "U+0730", "U+0731",
     "U+0732", "U+0733", "U+0734", "U+0735", "U+0736", "U+0737", "U+0738",
     "U+0739", "U+073A", "U+073B", "U+073C", "U+073D", "U+073E", "U+073F",
     "U+0740", "U+0741", "U+0742", "U+0743", "U+0744", "U+0745", "U+0746",
     "U+0747", "U+0748", "U+0749", "U+074A", "U+07A6", "U+07A7", "U+07A8",
     "U+07A9", "U+07AA", "U+07AB", "U+07AC", "U+07AD", "U+07AE", "U+07AF",
     "U+07B0", "U+07EB", "U+07EC", "U+07ED", "U+07EE", "U+07EF", "U+07F0",
     "U+07F1", "U+07F2", "U+07F3", "ߴ", "U+07F4", "ߵ", "U+07F5", "ߺ", "U+07FA",
     "U+07FD", "U+0816", "U+0817", "U+0818", "U+0819", "U+081A", "U+081B",
     "U+081C", "U+081D", "U+081E", "U+081F", "U+0820", "U+0821", "U+0822",
     "U+0823", "U+0824", "U+0825", "U+0826", "U+0827", "U+0828", "U+0829",
     "U+082A", "U+082B", "U+082C", "U+082D", "U+0859", "U+085A", "U+085B", "࢈",
     "U+0888", "U+0890", "U+0891", "U+0897", "U+0898", "U+0899", "U+089A",
     "U+089B", "U+089C", "U+089D", "U+089E", "U+089F", "ࣉ", "U+08C9", "U+08CA",
     "U+08CB", "U+08CC", "U+08CD", "U+08CE", "U+08CF", "U+08D0", "U+08D1",
     "U+08D2", "U+08D3", "U+08D4", "U+08D5", "U+08D6", "U+08D7", "U+08D8",
     "U+08D9", "U+08DA", "U+08DB", "U+08DC", "U+08DD", "U+08DE", "U+08DF",
     "U+08E0", "U+08E1", "U+08E2", "U+08E3", "U+08E4", "U+08E5", "U+08E6",
     "U+08E7", "U+08E8", "U+08E9", "U+08EA", "U+08EB", "U+08EC", "U+08ED",
     "U+08EE", "U+08EF", "U+08F0", "U+08F1", "U+08F2", "U+08F3", "U+08F4",
     "U+08F5", "U+08F6", "U+08F7", "U+08F8", "U+08F9", "U+08FA", "U+08FB",
     "U+08FC", "U+08FD", "U+08FE", "U+08FF", "U+0900", "U+0901", "U+0902",
     "U+093A", "U+093C", "U+0941", "U+0942", "U+0943", "U+0944", "U+0945",
     "U+0946", "U+0947", "U+0948", "U+094D", "U+0951", "U+0952", "U+0953",
     "U+0954", "U+0955", "U+0956", "U+0957", "U+0962", "U+0963", "U+0971",
     "U+0981", "U+09BC", "U+09C1", "U+09C2", "U+09C3", "U+09C4", "U+09CD",
     "U+09E2", "U+09E3", "U+09FE", "U+0A01", "U+0A02", "U+0A3C", "U+0A41",
     "U+0A42", "U+0A47", "U+0A48", "U+0A4B", "U+0A4C", "U+0A4D", "U+0A51",
     "U+0A70", "U+0A71", "U+0A75", "U+0A81", "U+0A82", "U+0ABC", "U+0AC1",
     "U+0AC2", "U+0AC3", "U+0AC4", "U+0AC5", "U+0AC7", "U+0AC8", "U+0ACD",
     "U+0AE2", "U+0AE3", "U+0AFA", "U+0AFB", "U+0AFC", "U+0AFD", "U+0AFE",
     "U+0AFF", "U+0B01", "U+0B3C", "U+0B3F", "U+0B41", "U+0B42", "U+0B43",
     "U+0B44", "U+0B4D", "U+0B55", "U+0B56", "U+0B62", "U+0B63", "U+0B82",
     "U+0BC0", "U+0BCD", "U+0C00", "U+0C04", "U+0C3C", "U+0C3E", "U+0C3F",
     "U+0C40", "U+0C46", "U+0C47", "U+0C48", "U+0C4A", "U+0C4B", "U+0C4C",
     "U+0C4D", "U+0C55", "U+0C56", "U+0C62", "U+0C63", "U+0C81", "U+0CBC",
     "U+0CBF", "U+0CC6", "U+0CCC", "U+0CCD", "U+0CE2", "U+0CE3", "U+0D00",
     "U+0D01", "U+0D3B", "U+0D3C", "U+0D41", "U+0D42", "U+0D43", "U+0D44",
     "U+0D4D", "U+0D62", "U+0D63", "U+0D81", "U+0DCA", "U+0DD2", "U+0DD3",
     "U+0DD4", "U+0DD6", "U+0E31", "U+0E34", "U+0E35", "U+0E36", "U+0E37",
     "U+0E38", "U+0E39", "U+0E3A", "U+0E46", "U+0E47", "U+0E48", "U+0E49",
     "U+0E4A", "U+0E4B", "U+0E4C", "U+0E4D", "U+0E4E", "U+0EB1", "U+0EB4",
     "U+0EB5", "U+0EB6", "U+0EB7", "U+0EB8", "U+0EB9", "U+0EBA", "U+0EBB",
     "U+0EBC", "ໆ", "U+0EC6", "U+0EC8", "U+0EC9", "U+0ECA", "U+0ECB", "U+0ECC",
     "U+0ECD", "U+0ECE", "U+0F18", "U+0F19", "U+0F35", "U+0F37", "U+0F39",
     "U+0F71", "U+0F72", "U+0F73", "U+0F74", "U+0F75", "U+0F76", "U+0F77",
     "U+0F78", "U+0F79", "U+0F7A", "U+0F7B", "U+0F7C", "U+0F7D", "U+0F7E",
     "U+0F80", "U+0F81", "U+0F82", "U+0F83", "U+0F84", "U+0F86", "U+0F87",
     "U+0F8D", "U+0F8E", "U+0F8F", "U+0F90", "U+0F91", "U+0F92", "U+0F93",
     "U+0F94", "U+0F95", "U+0F96", "U+0F97", "U+0F99", "U+0F9A", "U+0F9B",
     "U+0F9C", "U+0F9D", "U+0F9E", "U+0F9F", "U+0FA0", "U+0FA1", "U+0FA2",
     "U+0FA3", "U+0FA4", "U+0FA5", "U+0FA6", "U+0FA7", "U+0FA8", "U+0FA9",
     "U+0FAA", "U+0FAB", "U+0FAC", "U+0FAD", "U+0FAE", "U+0FAF", "U+0FB0",
     "U+0FB1", "U+0FB2", "U+0FB3", "U+0FB4", "U+0FB5", "U+0FB6", "U+0FB7",
     "U+0FB8", "U+0FB9", "U+0FBA", "U+0FBB", "U+0FBC", "U+0FC6", "U+102D",
     "U+102E", "U+102F", "U+1030", "U+1032", "U+1033", "U+1034", "U+1035",
     "U+1036", "U+1037", "U+1039", "U+103A", "U+103D", "U+103E", "U+1058",
     "U+1059", "U+105E", "U+105F", "U+1060", "U+1071", "U+1072", "U+1073",
     "U+1074", "U+1082", "U+1085", "U+1086", "U+108D", "U+109D", "ჼ", "U+10FC",
     "U+135D", "U+135E", "U+135F", "U+1712", "U+1713", "U+1714", "U+1732",
     "U+1733", "U+1752", "U+1753", "U+1772", "U+1773", "U+17B4", "U+17B5",
     "U+17B7", "U+17B8", "U+17B9", "U+17BA", "U+17BB", "U+17BC", "U+17BD",
     "U+17C6", "U+17C9", "U+17CA", "U+17CB", "U+17CC", "U+17CD", "U+17CE",
     "U+17CF", "U+17D0", "U+17D1", "U+17D2", "U+17D3", "ៗ", "U+17D7", "U+17DD",
     "U+180B", "U+180C", "U+180D", "U+180E", "U+180F", "U+1843", "U+1885",
     "U+1886", "U+18A9", "U+1920", "U+1921", "U+1922", "U+1927", "U+1928",
     "U+1932", "U+1939", "U+193A", "U+193B", "U+1A17", "U+1A18", "U+1A1B",
     "U+1A56", "U+1A58", "U+1A59", "U+1A5A", "U+1A5B", "U+1A5C", "U+1A5D",
     "U+1A5E", "U+1A60", "U+1A62", "U+1A65", "U+1A66", "U+1A67", "U+1A68",
     "U+1A69", "U+1A6A", "U+1A6B", "U+1A6C", "U+1A73", "U+1A74", "U+1A75",
     "U+1A76", "U+1A77", "U+1A78", "U+1A79", "U+1A7A", "U+1A7B", "U+1A7C",
     "U+1A7F", "ᪧ", "U+1AA7", "U+1AB0", "U+1AB1", "U+1AB2", "U+1AB3", "U+1AB4",
     "U+1AB5", "U+1AB6", "U+1AB7", "U+1AB8", "U+1AB9", "U+1ABA", "U+1ABB",
     "U+1ABC", "U+1ABD", "U+1ABE", "U+1ABF", "U+1AC0", "U+1AC1", "U+1AC2",
     "U+1AC3", "U+1AC4", "U+1AC5", "U+1AC6", "U+1AC7", "U+1AC8", "U+1AC9",
     "U+1ACA", "U+1ACB", "U+1ACC", "U+1ACD", "U+1ACE", "U+1ACF", "U+1AD0",
     "U+1AD1", "U+1AD2", "U+1AD3", "U+1AD4", "U+1AD5", "U+1AD6", "U+1AD7",
     "U+1AD8", "U+1AD9", "U+1ADA", "U+1ADB", "U+1ADC", "U+1ADD", "U+1AE0",
     "U+1AE1", "U+1AE2", "U+1AE3", "U+1AE4", "U+1AE5", "U+1AE6", "U+1AE7",
     "U+1AE8", "U+1AE9", "U+1AEA", "U+1AEB", "U+1B00", "U+1B01", "U+1B02",
     "U+1B03", "U+1B34", "U+1B36", "U+1B37", "U+1B38", "U+1B39", "U+1B3A",
     "U+1B3C", "U+1B42", "U+1B6B", "U+1B6C", "U+1B6D", "U+1B6E", "U+1B6F",
     "U+1B70", "U+1B71", "U+1B72", "U+1B73", "U+1B80", "U+1B81", "U+1BA2",
     "U+1BA3", "U+1BA4", "U+1BA5", "U+1BA8", "U+1BA9", "U+1BAB", "U+1BAC",
     "U+1BAD", "U+1BE6", "U+1BE8", "U+1BE9", "U+1BED", "U+1BEF", "U+1BF0",
     "U+1BF1", "U+1C2C", "U+1C2D", "U+1C2E", "U+1C2F", "U+1C30", "U+1C31",
     "U+1C32", "U+1C33", "U+1C36", "U+1C37", "U+1C78", "U+1C79", "U+1C7A",
     "U+1C7B", "U+1C7C", "U+1C7D", "U+1CD0", "U+1CD1", "U+1CD2", "U+1CD4",
     "U+1CD5", "U+1CD6", "U+1CD7", "U+1CD8", "U+1CD9", "U+1CDA", "U+1CDB",
     "U+1CDC", "U+1CDD", "U+1CDE", "U+1CDF", "U+1CE0", "U+1CE2", "U+1CE3",
     "U+1CE4", "U+1CE5", "U+1CE6", "U+1CE7", "U+1CE8", "U+1CED", "U+1CF4",
     "U+1CF8", "U+1CF9", "U+1D2C", "U+1D2D", "U+1D2E", "U+1D2F", "U+1D30",
     "U+1D31", "U+1D32", "U+1D33", "U+1D34", "U+1D35", "U+1D36", "U+1D37",
     "U+1D38", "U+1D39", "U+1D3A", "U+1D3B", "U+1D3C", "U+1D3D", "U+1D3E",
     "U+1D3F", "U+1D40", "U+1D41", "U+1D42", "U+1D43", "U+1D44", "U+1D45",
     "U+1D46", "U+1D47", "U+1D48", "U+1D49", "U+1D4A", "U+1D4B", "U+1D4C",
     "U+1D4D", "U+1D4E", "U+1D4F", "U+1D50", "U+1D51", "U+1D52", "U+1D53",
     "U+1D54", "U+1D55", "U+1D56", "U+1D57", "U+1D58", "U+1D59", "U+1D5A",
     "U+1D5B", "U+1D5C", "U+1D5D", "U+1D5E", "U+1D5F", "U+1D60", "U+1D61",
     "U+1D62", "U+1D63", "U+1D64", "U+1D65", "U+1D66", "U+1D67", "U+1D68",
     "U+1D69", "U+1D6A", "U+1D78", "ᶛ", "U+1D9B", "ᶜ", "U+1D9C", "ᶝ", "U+1D9D",
     "ᶞ", "U+1D9E", "ᶟ", "U+1D9F", "ᶠ", "U+1DA0", "ᶡ", "U+1DA1", "ᶢ", "U+1DA2",
     "ᶣ", "U+1DA3", "ᶤ", "U+1DA4", "ᶥ", "U+1DA5", "ᶦ", "U+1DA6", "ᶧ", "U+1DA7",
     "ᶨ", "U+1DA8", "ᶩ", "U+1DA9", "ᶪ", "U+1DAA", "ᶫ", "U+1DAB", "ᶬ", "U+1DAC",
     "ᶭ", "U+1DAD", "ᶮ", "U+1DAE", "ᶯ", "U+1DAF", "ᶰ", "U+1DB0", "ᶱ", "U+1DB1",
     "ᶲ", "U+1DB2", "ᶳ", "U+1DB3", "ᶴ", "U+1DB4", "ᶵ", "U+1DB5", "ᶶ", "U+1DB6",
     "ᶷ", "U+1DB7", "ᶸ", "U+1DB8", "ᶹ", "U+1DB9", "ᶺ", "U+1DBA", "ᶻ", "U+1DBB",
     "ᶼ", "U+1DBC", "ᶽ", "U+1DBD", "ᶾ", "U+1DBE", "ᶿ", "U+1DBF", "U+1DC0",
     "U+1DC1", "U+1DC2", "U+1DC3", "U+1DC4", "U+1DC5", "U+1DC6", "U+1DC7",
     "U+1DC8", "U+1DC9", "U+1DCA", "U+1DCB", "U+1DCC", "U+1DCD", "U+1DCE",
     "U+1DCF", "U+1DD0", "U+1DD1", "U+1DD2", "U+1DD3", "U+1DD4", "U+1DD5",
     "U+1DD6", "U+1DD7", "U+1DD8", "U+1DD9", "U+1DDA", "U+1DDB", "U+1DDC",
     "U+1DDD", "U+1DDE", "U+1DDF", "U+1DE0", "U+1DE1", "U+1DE2", "U+1DE3",
     "U+1DE4", "U+1DE5", "U+1DE6", "U+1DE7", "U+1DE8", "U+1DE9", "U+1DEA",
     "U+1DEB", "U+1DEC", "U+1DED", "U+1DEE", "U+1DEF", "U+1DF0", "U+1DF1",
     "U+1DF2", "U+1DF3", "U+1DF4", "U+1DF5", "U+1DF6", "U+1DF7", "U+1DF8",
     "U+1DF9", "U+1DFA", "U+1DFB", "U+1DFC", "U+1DFD", "U+1DFE", "U+1DFF", "᾽",
     "U+1FBD", "᾿", "U+1FBF", "῀", "U+1FC0", "῁", "U+1FC1", "῍", "U+1FCD", "῎",
     "U+1FCE", "῏", "U+1FCF", "῝", "U+1FDD", "῞", "U+1FDE", "῟", "U+1FDF", "῭",
     "U+1FED", "΅", "U+1FEE", "`", "U+1FEF", "´", "U+1FFD", "῾", "U+1FFE",
     "U+200B", "U+200C", "U+200D", "U+200E", "U+200F", "U+2018", "U+2019",
     "U+2024", "U+2027", "U+202A", "U+202B", "U+202C", "U+202D", "U+202E",
     "U+2060", "U+2061", "U+2062", "U+2063", "U+2064", "U+2066", "U+2067",
     "U+2068", "U+2069", "U+206A", "U+206B", "U+206C", "U+206D", "U+206E",
     "U+206F", "U+2071", "U+207F", "ₐ", "U+2090", "ₑ", "U+2091", "ₒ", "U+2092",
     "ₓ", "U+2093", "ₔ", "U+2094", "ₕ", "U+2095", "ₖ", "U+2096", "ₗ", "U+2097",
     "ₘ", "U+2098", "ₙ", "U+2099", "ₚ", "U+209A", "ₛ", "U+209B", "ₜ", "U+209C",
     "U+20D0", "U+20D1", "U+20D2", "U+20D3", "U+20D4", "U+20D5", "U+20D6",
     "U+20D7", "U+20D8", "U+20D9", "U+20DA", "U+20DB", "U+20DC", "U+20DD",
     "U+20DE", "U+20DF", "U+20E0", "U+20E1", "U+20E2", "U+20E3", "U+20E4",
     "U+20E5", "U+20E6", "U+20E7", "U+20E8", "U+20E9", "U+20EA", "U+20EB",
     "U+20EC", "U+20ED", "U+20EE", "U+20EF", "U+20F0", "U+2C7C", "U+2C7D",
     "U+2CEF", "U+2CF0", "U+2CF1", "U+2D6F", "U+2D7F", "U+2DE0", "U+2DE1",
     "U+2DE2", "U+2DE3", "U+2DE4", "U+2DE5", "U+2DE6", "U+2DE7", "U+2DE8",
     "U+2DE9", "U+2DEA", "U+2DEB", "U+2DEC", "U+2DED", "U+2DEE", "U+2DEF",
     "U+2DF0", "U+2DF1", "U+2DF2", "U+2DF3", "U+2DF4", "U+2DF5", "U+2DF6",
     "U+2DF7", "U+2DF8", "U+2DF9", "U+2DFA", "U+2DFB", "U+2DFC", "U+2DFD",
     "U+2DFE", "U+2DFF", "U+2E2F", "U+3005", "U+302A", "U+302B", "U+302C",
     "U+302D", "U+3031", "U+3032", "U+3033", "U+3034", "U+3035", "U+303B",
     "U+3099", "U+309A", "゛", "U+309B", "゜", "U+309C", "ゝ", "U+309D", "ゞ",
     "U+309E", "ー", "U+30FC", "ヽ", "U+30FD", "ヾ", "U+30FE", "U+A015", "ꓸ",
     "U+A4F8", "ꓹ", "U+A4F9", "ꓺ", "U+A4FA", "ꓻ", "U+A4FB", "ꓼ", "U+A4FC", "ꓽ",
     "U+A4FD", "U+A60C", "U+A66F", "U+A670", "U+A671", "U+A672", "U+A674",
     "U+A675", "U+A676", "U+A677", "U+A678", "U+A679", "U+A67A", "U+A67B",
     "U+A67C", "U+A67D", "U+A67F", "ꚜ", "U+A69C", "ꚝ", "U+A69D", "U+A69E",
     "U+A69F", "U+A6F0", "U+A6F1", "U+A700", "U+A701", "U+A702", "U+A703",
     "U+A704", "U+A705", "U+A706", "U+A707", "U+A708", "U+A709", "U+A70A",
     "U+A70B", "U+A70C", "U+A70D", "U+A70E", "U+A70F", "U+A710", "U+A711",
     "U+A712", "U+A713", "U+A714", "U+A715", "U+A716", "U+A717", "U+A718",
     "U+A719", "U+A71A", "U+A71B", "U+A71C", "U+A71D", "U+A71E", "U+A71F",
     "U+A720", "U+A721", "U+A770", "ꞈ", "U+A788", "꞉", "U+A789", "꞊", "U+A78A",
     "꟱", "U+A7F1", "ꟲ", "U+A7F2", "ꟳ", "U+A7F3", "ꟴ", "U+A7F4", "ꟸ", "U+A7F8",
     "ꟹ", "U+A7F9", "U+A802", "U+A806", "U+A80B", "U+A825", "U+A826", "U+A82C",
     "U+A8C4", "U+A8C5", "U+A8E0", "U+A8E1", "U+A8E2", "U+A8E3", "U+A8E4",
     "U+A8E5", "U+A8E6", "U+A8E7", "U+A8E8", "U+A8E9", "U+A8EA", "U+A8EB",
     "U+A8EC", "U+A8ED", "U+A8EE", "U+A8EF", "U+A8F0", "U+A8F1", "U+A8FF",
     "U+A926", "U+A927", "U+A928", "U+A929", "U+A92A", "U+A92B", "U+A92C",
     "U+A92D", "U+A947", "U+A948", "U+A949", "U+A94A", "U+A94B", "U+A94C",
     "U+A94D", "U+A94E", "U+A94F", "U+A950", "U+A951", "U+A980", "U+A981",
     "U+A982", "U+A9B3", "U+A9B6", "U+A9B7", "U+A9B8", "U+A9B9", "U+A9BC",
     "U+A9BD", "ꧏ", "U+A9CF", "U+A9E5", "ꧦ", "U+A9E6", "U+AA29", "U+AA2A",
     "U+AA2B", "U+AA2C", "U+AA2D", "U+AA2E", "U+AA31", "U+AA32", "U+AA35",
     "U+AA36", "U+AA43", "U+AA4C", "U+AA70", "U+AA7C", "U+AAB0", "U+AAB2",
     "U+AAB3", "U+AAB4", "U+AAB7", "U+AAB8", "U+AABE", "U+AABF", "U+AAC1", "ꫝ",
     "U+AADD", "U+AAEC", "U+AAED", "ꫳ", "U+AAF3", "ꫴ", "U+AAF4", "U+AAF6",
     "U+AB5B", "U+AB5C", "U+AB5D", "U+AB5E", "U+AB5F", "U+AB69", "U+AB6A",
     "U+AB6B", "U+ABE5", "U+ABE8", "U+ABED", "U+FB1E", "﮲", "U+FBB2", "﮳",
     "U+FBB3", "﮴", "U+FBB4", "﮵", "U+FBB5", "﮶", "U+FBB6", "﮷", "U+FBB7", "﮸",
     "U+FBB8", "﮹", "U+FBB9", "﮺", "U+FBBA", "﮻", "U+FBBB", "﮼", "U+FBBC", "﮽",
     "U+FBBD", "﮾", "U+FBBE", "﮿", "U+FBBF", "﯀", "U+FBC0", "﯁", "U+FBC1", "﯂",
     "U+FBC2", "U+FE00", "U+FE01", "U+FE02", "U+FE03", "U+FE04", "U+FE05",
     "U+FE06", "U+FE07", "U+FE08", "U+FE09", "U+FE0A", "U+FE0B", "U+FE0C",
     "U+FE0D", "U+FE0E", "U+FE0F", "U+FE13", "U+FE20", "U+FE21", "U+FE22",
     "U+FE23", "U+FE24", "U+FE25", "U+FE26", "U+FE27", "U+FE28", "U+FE29",
     "U+FE2A", "U+FE2B", "U+FE2C", "U+FE2D", "U+FE2E", "U+FE2F", "U+FE52",
     "U+FE55", "U+FEFF", "U+FF07", "U+FF0E", "U+FF1A", "U+FF3E", "U+FF40",
     "U+FF70", "ﾞ", "U+FF9E", "ﾟ", "U+FF9F", "￣", "U+FFE3", "U+FFF9", "U+FFFA",
     "U+FFFB"}

CaseIgnorablePairs ==
    {<<"U+D800", "U+DDFD">>, <<"U+D800", "U+DEE0">>, <<"U+D800", "U+DF76">>,
     <<"U+D800", "U+DF77">>, <<"U+D800", "U+DF78">>, <<"U+D800", "U+DF79">>,
     <<"U+D800", "U+DF7A">>, <<"U+D801", "U+DF80">>, <<"U+D801", "U+DF81">>,
     <<"U+D801", "U+DF82">>, <<"U+D801", "U+DF83">>, <<"U+D801", "U+DF84">>,
     <<"U+D801", "U+DF85">>, <<"U+D801", "U+DF87">>, <<"U+D801", "U+DF88">>,
     <<"U+D801", "U+DF89">>, <<"U+D801", "U+DF8A">>, <<"U+D801", "U+DF8B">>,
     <<"U+D801", "U+DF8C">>, <<"U+D801", "U+DF8D">>, <<"U+D801", "U+DF8E">>,
     <<"U+D801", "U+DF8F">>, <<"U+D801", "U+DF90">>, <<"U+D801", "U+DF91">>,
     <<"U+D801", "U+DF92">>, <<"U+D801", "U+DF93">>, <<"U+D801", "U+DF94">>,
     <<"U+D801", "U+DF95">>, <<"U+D801", "U+DF96">>, <<"U+D801", "U+DF97">>,
     <<"U+D801", "U+DF98">>, <<"U+D801", "U+DF99">>, <<"U+D801", "U+DF9A">>,
     <<"U+D801", "U+DF9B">>, <<"U+D801", "U+DF9C">>, <<"U+D801", "U+DF9D">>,
     <<"U+D801", "U+DF9E">>, <<"U+D801", "U+DF9F">>, <<"U+D801", "U+DFA0">>,
     <<"U+D801", "U+DFA1">>, <<"U+D801", "U+DFA2">>, <<"U+D801", "U+DFA3">>,
     <<"U+D801", "U+DFA4">>, <<"U+D801", "U+DFA5">>, <<"U+D801", "U+DFA6">>,
     <<"U+D801", "U+DFA7">>, <<"U+D801", "U+DFA8">>, <<"U+D801", "U+DFA9">>,
     <<"U+D801", "U+DFAA">>, <<"U+D801", "U+DFAB">>, <<"U+D801", "U+DFAC">>,
     <<"U+D801", "U+DFAD">>, <<"U+D801", "U+DFAE">>, <<"U+D801", "U+DFAF">>,
     <<"U+D801", "U+DFB0">>, <<"U+D801", "U+DFB2">>, <<"U+D801", "U+DFB3">>,
     <<"U+D801", "U+DFB4">>, <<"U+D801", "U+DFB5">>, <<"U+D801", "U+DFB6">>,
     <<"U+D801", "U+DFB7">>, <<"U+D801", "U+DFB8">>, <<"U+D801", "U+DFB9">>,
     <<"U+D801", "U+DFBA">>, <<"U+D802", "U+DE01">>, <<"U+D802", "U+DE02">>,
     <<"U+D802", "U+DE03">>, <<"U+D802", "U+DE05">>, <<"U+D802", "U+DE06">>,
     <<"U+D802", "U+DE0C">>, <<"U+D802", "U+DE0D">>, <<"U+D802", "U+DE0E">>,
     <<"U+D802", "U+DE0F">>, <<"U+D802", "U+DE38">>, <<"U+D802", "U+DE39">>,
     <<"U+D802", "U+DE3A">>, <<"U+D802", "U+DE3F">>, <<"U+D802", "U+DEE5">>,
     <<"U+D802", "U+DEE6">>, <<"U+D803", "U+DD24">>, <<"U+D803", "U+DD25">>,
     <<"U+D803", "U+DD26">>, <<"U+D803", "U+DD27">>, <<"U+D803", "U+DD4E">>,
     <<"U+D803", "U+DD69">>, <<"U+D803", "U+DD6A">>, <<"U+D803", "U+DD6B">>,
     <<"U+D803", "U+DD6C">>, <<"U+D803", "U+DD6D">>, <<"U+D803", "U+DD6F">>,
     <<"U+D803", "U+DEAB">>, <<"U+D803", "U+DEAC">>, <<"U+D803", "U+DEC5">>,
     <<"U+D803", "U+DEFA">>, <<"U+D803", "U+DEFB">>, <<"U+D803", "U+DEFC">>,
     <<"U+D803", "U+DEFD">>, <<"U+D803", "U+DEFE">>, <<"U+D803", "U+DEFF">>,
     <<"U+D803", "U+DF46">>, <<"U+D803", "U+DF47">>, <<"U+D803", "U+DF48">>,
     <<"U+D803", "U+DF49">>, <<"U+D803", "U+DF4A">>, <<"U+D803", "U+DF4B">>,
     <<"U+D803", "U+DF4C">>, <<"U+D803", "U+DF4D">>, <<"U+D803", "U+DF4E">>,
     <<"U+D803", "U+DF4F">>, <<"U+D803", "U+DF50">>, <<"U+D803", "U+DF82">>,
     <<"U+D803", "U+DF83">>, <<"U+D803", "U+DF84">>, <<"U+D803", "U+DF85">>,
     <<"U+D804", "U+DC01">>, <<"U+D804", "U+DC38">>, <<"U+D804", "U+DC39">>,
     <<"U+D804", "U+DC3A">>, <<"U+D804", "U+DC3B">>, <<"U+D804", "U+DC3C">>,
     <<"U+D804", "U+DC3D">>, <<"U+D804", "U+DC3E">>, <<"U+D804", "U+DC3F">>,
     <<"U+D804", "U+DC40">>, <<"U+D804", "U+DC41">>, <<"U+D804", "U+DC42">>,
     <<"U+D804", "U+DC43">>, <<"U+D804", "U+DC44">>, <<"U+D804", "U+DC45">>,
     <<"U+D804", "U+DC46">>, <<"U+D804", "U+DC70">>, <<"U+D804", "U+DC73">>,
     <<"U+D804", "U+DC74">>, <<"U+D804", "U+DC7F">>, <<"U+D804", "U+DC80">>,
     <<"U+D804", "U+DC81">>, <<"U+D804", "U+DCB3">>, <<"U+D804", "U+DCB4">>,
     <<"U+D804", "U+DCB5">>, <<"U+D804", "U+DCB6">>, <<"U+D804", "U+DCB9">>,
     <<"U+D804", "U+DCBA">>, <<"U+D804", "U+DCBD">>, <<"U+D804", "U+DCC2">>,
     <<"U+D804", "U+DCCD">>, <<"U+D804", "U+DD00">>, <<"U+D804", "U+DD01">>,
     <<"U+D804", "U+DD02">>, <<"U+D804", "U+DD27">>, <<"U+D804", "U+DD28">>,
     <<"U+D804", "U+DD29">>, <<"U+D804", "U+DD2A">>, <<"U+D804", "U+DD2B">>,
     <<"U+D804", "U+DD2D">>, <<"U+D804", "U+DD2E">>, <<"U+D804", "U+DD2F">>,
     <<"U+D804", "U+DD30">>, <<"U+D804", "U+DD31">>, <<"U+D804", "U+DD32">>,
     <<"U+D804", "U+DD33">>, <<"U+D804", "U+DD34">>, <<"U+D804", "U+DD73">>,
     <<"U+D804", "U+DD80">>, <<"U+D804", "U+DD81">>, <<"U+D804", "U+DDB6">>,
     <<"U+D804", "U+DDB7">>, <<"U+D804", "U+DDB8">>, <<"U+D804", "U+DDB9">>,
     <<"U+D804", "U+DDBA">>, <<"U+D804", "U+DDBB">>, <<"U+D804", "U+DDBC">>,
     <<"U+D804", "U+DDBD">>, <<"U+D804", "U+DDBE">>, <<"U+D804", "U+DDC9">>,
     <<"U+D804", "U+DDCA">>, <<"U+D804", "U+DDCB">>, <<"U+D804", "U+DDCC">>,
     <<"U+D804", "U+DDCF">>, <<"U+D804", "U+DE2F">>, <<"U+D804", "U+DE30">>,
     <<"U+D804", "U+DE31">>, <<"U+D804", "U+DE34">>, <<"U+D804", "U+DE36">>,
     <<"U+D804", "U+DE37">>, <<"U+D804", "U+DE3E">>, <<"U+D804", "U+DE41">>,
     <<"U+D804", "U+DEDF">>, <<"U+D804", "U+DEE3">>, <<"U+D804", "U+DEE4">>,
     <<"U+D804", "U+DEE5">>, <<"U+D804", "U+DEE6">>, <<"U+D804", "U+DEE7">>,
     <<"U+D804", "U+DEE8">>, <<"U+D804", "U+DEE9">>, <<"U+D804", "U+DEEA">>,
     <<"U+D804", "U+DF00">>, <<"U+D804", "U+DF01">>, <<"U+D804", "U+DF3B">>,
     <<"U+D804", "U+DF3C">>, <<"U+D804", "U+DF40">>, <<"U+D804", "U+DF66">>,
     <<"U+D804", "U+DF67">>, <<"U+D804", "U+DF68">>, <<"U+D804", "U+DF69">>,
     <<"U+D804", "U+DF6A">>, <<"U+D804", "U+DF6B">>, <<"U+D804", "U+DF6C">>,
     <<"U+D804", "U+DF70">>, <<"U+D804", "U+DF71">>, <<"U+D804", "U+DF72">>,
     <<"U+D804", "U+DF73">>, <<"U+D804", "U+DF74">>, <<"U+D804", "U+DFBB">>,
     <<"U+D804", "U+DFBC">>, <<"U+D804", "U+DFBD">>, <<"U+D804", "U+DFBE">>,
     <<"U+D804", "U+DFBF">>, <<"U+D804", "U+DFC0">>, <<"U+D804", "U+DFCE">>,
     <<"U+D804", "U+DFD0">>, <<"U+D804", "U+DFD2">>, <<"U+D804", "U+DFE1">>,
     <<"U+D804", "U+DFE2">>, <<"U+D805", "U+DC38">>, <<"U+D805", "U+DC39">>,
     <<"U+D805", "U+DC3A">>, <<"U+D805", "U+DC3B">>, <<"U+D805", "U+DC3C">>,
     <<"U+D805", "U+DC3D">>, <<"U+D805", "U+DC3E">>, <<"U+D805", "U+DC3F">>,
     <<"U+D805", "U+DC42">>, <<"U+D805", "U+DC43">>, <<"U+D805", "U+DC44">>,
     <<"U+D805", "U+DC46">>, <<"U+D805", "U+DC5E">>, <<"U+D805", "U+DCB3">>,
     <<"U+D805", "U+DCB4">>, <<"U+D805", "U+DCB5">>, <<"U+D805", "U+DCB6">>,
     <<"U+D805", "U+DCB7">>, <<"U+D805", "U+DCB8">>, <<"U+D805", "U+DCBA">>,
     <<"U+D805", "U+DCBF">>, <<"U+D805", "U+DCC0">>, <<"U+D805", "U+DCC2">>,
     <<"U+D805", "U+DCC3">>, <<"U+D805", "U+DDB2">>, <<"U+D805", "U+DDB3">>,
     <<"U+D805", "U+DDB4">>, <<"U+D805", "U+DDB5">>, <<"U+D805", "U+DDBC">>,
     <<"U+D805", "U+DDBD">>, <<"U+D805", "U+DDBF">>, <<"U+D805", "U+DDC0">>,
     <<"U+D805", "U+DDDC">>, <<"U+D805", "U+DDDD">>, <<"U+D805", "U+DE33">>,
     <<"U+D805", "U+DE34">>, <<"U+D805", "U+DE35">>, <<"U+D805", "U+DE36">>,
     <<"U+D805", "U+DE37">>, <<"U+D805", "U+DE38">>, <<"U+D805", "U+DE39">>,
     <<"U+D805", "U+DE3A">>, <<"U+D805", "U+DE3D">>, <<"U+D805", "U+DE3F">>,
     <<"U+D805", "U+DE40">>, <<"U+D805", "U+DEAB">>, <<"U+D805", "U+DEAD">>,
     <<"U+D805", "U+DEB0">>, <<"U+D805", "U+DEB1">>, <<"U+D805", "U+DEB2">>,
     <<"U+D805", "U+DEB3">>, <<"U+D805", "U+DEB4">>, <<"U+D805", "U+DEB5">>,
     <<"U+D805", "U+DEB7">>, <<"U+D805", "U+DF1D">>, <<"U+D805", "U+DF1F">>,
     <<"U+D805", "U+DF22">>, <<"U+D805", "U+DF23">>, <<"U+D805", "U+DF24">>,
     <<"U+D805", "U+DF25">>, <<"U+D805", "U+DF27">>, <<"U+D805", "U+DF28">>,
     <<"U+D805", "U+DF29">>, <<"U+D805", "U+DF2A">>, <<"U+D805", "U+DF2B">>,
     <<"U+D806", "U+DC2F">>, <<"U+D806", "U+DC30">>, <<"U+D806", "U+DC31">>,
     <<"U+D806", "U+DC32">>, <<"U+D806", "U+DC33">>, <<"U+D806", "U+DC34">>,
     <<"U+D806", "U+DC35">>, <<"U+D806", "U+DC36">>, <<"U+D806", "U+DC37">>,
     <<"U+D806", "U+DC39">>, <<"U+D806", "U+DC3A">>, <<"U+D806", "U+DD3B">>,
     <<"U+D806", "U+DD3C">>, <<"U+D806", "U+DD3E">>, <<"U+D806", "U+DD43">>,
     <<"U+D806", "U+DDD4">>, <<"U+D806", "U+DDD5">>, <<"U+D806", "U+DDD6">>,
     <<"U+D806", "U+DDD7">>, <<"U+D806", "U+DDDA">>, <<"U+D806", "U+DDDB">>,
     <<"U+D806", "U+DDE0">>, <<"U+D806", "U+DE01">>, <<"U+D806", "U+DE02">>,
     <<"U+D806", "U+DE03">>, <<"U+D806", "U+DE04">>, <<"U+D806", "U+DE05">>,
     <<"U+D806", "U+DE06">>, <<"U+D806", "U+DE07">>, <<"U+D806", "U+DE08">>,
     <<"U+D806", "U+DE09">>, <<"U+D806", "U+DE0A">>, <<"U+D806", "U+DE33">>,
     <<"U+D806", "U+DE34">>, <<"U+D806", "U+DE35">>, <<"U+D806", "U+DE36">>,
     <<"U+D806", "U+DE37">>, <<"U+D806", "U+DE38">>, <<"U+D806", "U+DE3B">>,
     <<"U+D806", "U+DE3C">>, <<"U+D806", "U+DE3D">>, <<"U+D806", "U+DE3E">>,
     <<"U+D806", "U+DE47">>, <<"U+D806", "U+DE51">>, <<"U+D806", "U+DE52">>,
     <<"U+D806", "U+DE53">>, <<"U+D806", "U+DE54">>, <<"U+D806", "U+DE55">>,
     <<"U+D806", "U+DE56">>, <<"U+D806", "U+DE59">>, <<"U+D806", "U+DE5A">>,
     <<"U+D806", "U+DE5B">>, <<"U+D806", "U+DE8A">>, <<"U+D806", "U+DE8B">>,
     <<"U+D806", "U+DE8C">>, <<"U+D806", "U+DE8D">>, <<"U+D806", "U+DE8E">>,
     <<"U+D806", "U+DE8F">>, <<"U+D806", "U+DE90">>, <<"U+D806", "U+DE91">>,
     <<"U+D806", "U+DE92">>, <<"U+D806", "U+DE93">>, <<"U+D806", "U+DE94">>,
     <<"U+D806", "U+DE95">>, <<"U+D806", "U+DE96">>, <<"U+D806", "U+DE98">>,
     <<"U+D806", "U+DE99">>, <<"U+D806", "U+DF60">>, <<"U+D806", "U+DF62">>,
     <<"U+D806", "U+DF63">>, <<"U+D806", "U+DF64">>, <<"U+D806", "U+DF66">>,
     <<"U+D807", "U+DC30">>, <<"U+D807", "U+DC31">>, <<"U+D807", "U+DC32">>,
     <<"U+D807", "U+DC33">>, <<"U+D807", "U+DC34">>, <<"U+D807", "U+DC35">>,
     <<"U+D807", "U+DC36">>, <<"U+D807", "U+DC38">>, <<"U+D807", "U+DC39">>,
     <<"U+D807", "U+DC3A">>, <<"U+D807", "U+DC3B">>, <<"U+D807", "U+DC3C">>,
     <<"U+D807", "U+DC3D">>, <<"U+D807", "U+DC3F">>, <<"U+D807", "U+DC92">>,
     <<"U+D807", "U+DC93">>, <<"U+D807", "U+DC94">>, <<"U+D807", "U+DC95">>,
     <<"U+D807", "U+DC96">>, <<"U+D807", "U+DC97">>, <<"U+D807", "U+DC98">>,
     <<"U+D807", "U+DC99">>, <<"U+D807", "U+DC9A">>, <<"U+D807", "U+DC9B">>,
     <<"U+D807", "U+DC9C">>, <<"U+D807", "U+DC9D">>, <<"U+D807", "U+DC9E">>,
     <<"U+D807", "U+DC9F">>, <<"U+D807", "U+DCA0">>, <<"U+D807", "U+DCA1">>,
     <<"U+D807", "U+DCA2">>, <<"U+D807", "U+DCA3">>, <<"U+D807", "U+DCA4">>,
     <<"U+D807", "U+DCA5">>, <<"U+D807", "U+DCA6">>, <<"U+D807", "U+DCA7">>,
     <<"U+D807", "U+DCAA">>, <<"U+D807", "U+DCAB">>, <<"U+D807", "U+DCAC">>,
     <<"U+D807", "U+DCAD">>, <<"U+D807", "U+DCAE">>, <<"U+D807", "U+DCAF">>,
     <<"U+D807", "U+DCB0">>, <<"U+D807", "U+DCB2">>, <<"U+D807", "U+DCB3">>,
     <<"U+D807", "U+DCB5">>, <<"U+D807", "U+DCB6">>, <<"U+D807", "U+DD31">>,
     <<"U+D807", "U+DD32">>, <<"U+D807", "U+DD33">>, <<"U+D807", "U+DD34">>,
     <<"U+D807", "U+DD35">>, <<"U+D807", "U+DD36">>, <<"U+D807", "U+DD3A">>,
     <<"U+D807", "U+DD3C">>, <<"U+D807", "U+DD3D">>, <<"U+D807", "U+DD3F">>,
     <<"U+D807", "U+DD40">>, <<"U+D807", "U+DD41">>, <<"U+D807", "U+DD42">>,
     <<"U+D807", "U+DD43">>, <<"U+D807", "U+DD44">>, <<"U+D807", "U+DD45">>,
     <<"U+D807", "U+DD47">>, <<"U+D807", "U+DD90">>, <<"U+D807", "U+DD91">>,
     <<"U+D807", "U+DD95">>, <<"U+D807", "U+DD97">>, <<"U+D807", "U+DDD9">>,
     <<"U+D807", "U+DEF3">>, <<"U+D807", "U+DEF4">>, <<"U+D807", "U+DF00">>,
     <<"U+D807", "U+DF01">>, <<"U+D807", "U+DF36">>, <<"U+D807", "U+DF37">>,
     <<"U+D807", "U+DF38">>, <<"U+D807", "U+DF39">>, <<"U+D807", "U+DF3A">>,
     <<"U+D807", "U+DF40">>, <<"U+D807", "U+DF42">>, <<"U+D807", "U+DF5A">>,
     <<"U+D80D", "U+DC30">>, <<"U+D80D", "U+DC31">>, <<"U+D80D", "U+DC32">>,
     <<"U+D80D", "U+DC33">>, <<"U+D80D", "U+DC34">>, <<"U+D80D", "U+DC35">>,
     <<"U+D80D", "U+DC36">>, <<"U+D80D", "U+DC37">>, <<"U+D80D", "U+DC38">>,
     <<"U+D80D", "U+DC39">>, <<"U+D80D", "U+DC3A">>, <<"U+D80D", "U+DC3B">>,
     <<"U+D80D", "U+DC3C">>, <<"U+D80D", "U+DC3D">>, <<"U+D80D", "U+DC3E">>,
     <<"U+D80D", "U+DC3F">>, <<"U+D80D", "U+DC40">>, <<"U+D80D", "U+DC47">>,
     <<"U+D80D", "U+DC48">>, <<"U+D80D", "U+DC49">>, <<"U+D80D", "U+DC4A">>,
     <<"U+D80D", "U+DC4B">>, <<"U+D80D", "U+DC4C">>, <<"U+D80D", "U+DC4D">>,
     <<"U+D80D", "U+DC4E">>, <<"U+D80D", "U+DC4F">>, <<"U+D80D", "U+DC50">>,
     <<"U+D80D", "U+DC51">>, <<"U+D80D", "U+DC52">>, <<"U+D80D", "U+DC53">>,
     <<"U+D80D", "U+DC54">>, <<"U+D80D", "U+DC55">>, <<"U+D818", "U+DD1E">>,
     <<"U+D818", "U+DD1F">>, <<"U+D818", "U+DD20">>, <<"U+D818", "U+DD21">>,
     <<"U+D818", "U+DD22">>, <<"U+D818", "U+DD23">>, <<"U+D818", "U+DD24">>,
     <<"U+D818", "U+DD25">>, <<"U+D818", "U+DD26">>, <<"U+D818", "U+DD27">>,
     <<"U+D818", "U+DD28">>, <<"U+D818", "U+DD29">>, <<"U+D818", "U+DD2D">>,
     <<"U+D818", "U+DD2E">>, <<"U+D818", "U+DD2F">>, <<"U+D81A", "U+DEF0">>,
     <<"U+D81A", "U+DEF1">>, <<"U+D81A", "U+DEF2">>, <<"U+D81A", "U+DEF3">>,
     <<"U+D81A", "U+DEF4">>, <<"U+D81A", "U+DF30">>, <<"U+D81A", "U+DF31">>,
     <<"U+D81A", "U+DF32">>, <<"U+D81A", "U+DF33">>, <<"U+D81A", "U+DF34">>,
     <<"U+D81A", "U+DF35">>, <<"U+D81A", "U+DF36">>, <<"U+D81A", "U+DF40">>,
     <<"U+D81A", "U+DF41">>, <<"U+D81A", "U+DF42">>, <<"U+D81A", "U+DF43">>,
     <<"U+D81B", "U+DD40">>, <<"U+D81B", "U+DD41">>, <<"U+D81B", "U+DD42">>,
     <<"U+D81B", "U+DD6B">>, <<"U+D81B", "U+DD6C">>, <<"U+D81B", "U+DF4F">>,
     <<"U+D81B", "U+DF8F">>, <<"U+D81B", "U+DF90">>, <<"U+D81B", "U+DF91">>,
     <<"U+D81B", "U+DF92">>, <<"U+D81B", "U+DF93">>, <<"U+D81B", "U+DF94">>,
     <<"U+D81B", "U+DF95">>, <<"U+D81B", "U+DF96">>, <<"U+D81B", "U+DF97">>,
     <<"U+D81B", "U+DF98">>, <<"U+D81B", "U+DF99">>, <<"U+D81B", "U+DF9A">>,
     <<"U+D81B", "U+DF9B">>, <<"U+D81B", "U+DF9C">>, <<"U+D81B", "U+DF9D">>,
     <<"U+D81B", "U+DF9E">>, <<"U+D81B", "U+DF9F">>, <<"U+D81B", "U+DFE0">>,
     <<"U+D81B", "U+DFE1">>, <<"U+D81B", "U+DFE3">>, <<"U+D81B", "U+DFE4">>,
     <<"U+D81B", "U+DFF2">>, <<"U+D81B", "U+DFF3">>, <<"U+D82B", "U+DFF0">>,
     <<"U+D82B", "U+DFF1">>, <<"U+D82B", "U+DFF2">>, <<"U+D82B", "U+DFF3">>,
     <<"U+D82B", "U+DFF5">>, <<"U+D82B", "U+DFF6">>, <<"U+D82B", "U+DFF7">>,
     <<"U+D82B", "U+DFF8">>, <<"U+D82B", "U+DFF9">>, <<"U+D82B", "U+DFFA">>,
     <<"U+D82B", "U+DFFB">>, <<"U+D82B", "U+DFFD">>, <<"U+D82B", "U+DFFE">>,
     <<"U+D82F", "U+DC9D">>, <<"U+D82F", "U+DC9E">>, <<"U+D82F", "U+DCA0">>,
     <<"U+D82F", "U+DCA1">>, <<"U+D82F", "U+DCA2">>, <<"U+D82F", "U+DCA3">>,
     <<"U+D833", "U+DF00">>, <<"U+D833", "U+DF01">>, <<"U+D833", "U+DF02">>,
     <<"U+D833", "U+DF03">>, <<"U+D833", "U+DF04">>, <<"U+D833", "U+DF05">>,
     <<"U+D833", "U+DF06">>, <<"U+D833", "U+DF07">>, <<"U+D833", "U+DF08">>,
     <<"U+D833", "U+DF09">>, <<"U+D833", "U+DF0A">>, <<"U+D833", "U+DF0B">>,
     <<"U+D833", "U+DF0C">>, <<"U+D833", "U+DF0D">>, <<"U+D833", "U+DF0E">>,
     <<"U+D833", "U+DF0F">>, <<"U+D833", "U+DF10">>, <<"U+D833", "U+DF11">>,
     <<"U+D833", "U+DF12">>, <<"U+D833", "U+DF13">>, <<"U+D833", "U+DF14">>,
     <<"U+D833", "U+DF15">>, <<"U+D833", "U+DF16">>, <<"U+D833", "U+DF17">>,
     <<"U+D833", "U+DF18">>, <<"U+D833", "U+DF19">>, <<"U+D833", "U+DF1A">>,
     <<"U+D833", "U+DF1B">>, <<"U+D833", "U+DF1C">>, <<"U+D833", "U+DF1D">>,
     <<"U+D833", "U+DF1E">>, <<"U+D833", "U+DF1F">>, <<"U+D833", "U+DF20">>,
     <<"U+D833", "U+DF21">>, <<"U+D833", "U+DF22">>, <<"U+D833", "U+DF23">>,
     <<"U+D833", "U+DF24">>, <<"U+D833", "U+DF25">>, <<"U+D833", "U+DF26">>,
     <<"U+D833", "U+DF27">>, <<"U+D833", "U+DF28">>, <<"U+D833", "U+DF29">>,
     <<"U+D833", "U+DF2A">>, <<"U+D833", "U+DF2B">>, <<"U+D833", "U+DF2C">>,
     <<"U+D833", "U+DF2D">>, <<"U+D833", "U+DF30">>, <<"U+D833", "U+DF31">>,
     <<"U+D833", "U+DF32">>, <<"U+D833", "U+DF33">>, <<"U+D833", "U+DF34">>,
     <<"U+D833", "U+DF35">>, <<"U+D833", "U+DF36">>, <<"U+D833", "U+DF37">>,
     <<"U+D833", "U+DF38">>, <<"U+D833", "U+DF39">>, <<"U+D833", "U+DF3A">>,
     <<"U+D833", "U+DF3B">>, <<"U+D833", "U+DF3C">>, <<"U+D833", "U+DF3D">>,
     <<"U+D833", "U+DF3E">>, <<"U+D833", "U+DF3F">>, <<"U+D833", "U+DF40">>,
     <<"U+D833", "U+DF41">>, <<"U+D833", "U+DF42">>, <<"U+D833", "U+DF43">>,
     <<"U+D833", "U+DF44">>, <<"U+D833", "U+DF45">>, <<"U+D833", "U+DF46">>,
     <<"U+D834", "U+DD67">>, <<"U+D834", "U+DD68">>, <<"U+D834", "U+DD69">>,
     <<"U+D834", "U+DD73">>, <<"U+D834", "U+DD74">>, <<"U+D834", "U+DD75">>,
     <<"U+D834", "U+DD76">>, <<"U+D834", "U+DD77">>, <<"U+D834", "U+DD78">>,
     <<"U+D834", "U+DD79">>, <<"U+D834", "U+DD7A">>, <<"U+D834", "U+DD7B">>,
     <<"U+D834", "U+DD7C">>, <<"U+D834", "U+DD7D">>, <<"U+D834", "U+DD7E">>,
     <<"U+D834", "U+DD7F">>, <<"U+D834", "U+DD80">>, <<"U+D834", "U+DD81">>,
     <<"U+D834", "U+DD82">>, <<"U+D834", "U+DD85">>, <<"U+D834", "U+DD86">>,
     <<"U+D834", "U+DD87">>, <<"U+D834", "U+DD88">>, <<"U+D834", "U+DD89">>,
     <<"U+D834", "U+DD8A">>, <<"U+D834", "U+DD8B">>, <<"U+D834", "U+DDAA">>,
     <<"U+D834", "U+DDAB">>, <<"U+D834", "U+DDAC">>, <<"U+D834", "U+DDAD">>,
     <<"U+D834", "U+DE42">>, <<"U+D834", "U+DE43">>, <<"U+D834", "U+DE44">>,
     <<"U+D836", "U+DE00">>, <<"U+D836", "U+DE01">>, <<"U+D836", "U+DE02">>,
     <<"U+D836", "U+DE03">>, <<"U+D836", "U+DE04">>, <<"U+D836", "U+DE05">>,
     <<"U+D836", "U+DE06">>, <<"U+D836", "U+DE07">>, <<"U+D836", "U+DE08">>,
     <<"U+D836", "U+DE09">>, <<"U+D836", "U+DE0A">>, <<"U+D836", "U+DE0B">>,
     <<"U+D836", "U+DE0C">>, <<"U+D836", "U+DE0D">>, <<"U+D836", "U+DE0E">>,
     <<"U+D836", "U+DE0F">>, <<"U+D836", "U+DE10">>, <<"U+D836", "U+DE11">>,
     <<"U+D836", "U+DE12">>, <<"U+D836", "U+DE13">>, <<"U+D836", "U+DE14">>,
     <<"U+D836", "U+DE15">>, <<"U+D836", "U+DE16">>, <<"U+D836", "U+DE17">>,
     <<"U+D836", "U+DE18">>, <<"U+D836", "U+DE19">>, <<"U+D836", "U+DE1A">>,
     <<"U+D836", "U+DE1B">>, <<"U+D836", "U+DE1C">>, <<"U+D836", "U+DE1D">>,
     <<"U+D836", "U+DE1E">>, <<"U+D836", "U+DE1F">>, <<"U+D836", "U+DE20">>,
     <<"U+D836", "U+DE21">>, <<"U+D836", "U+DE22">>, <<"U+D836", "U+DE23">>,
     <<"U+D836", "U+DE24">>, <<"U+D836", "U+DE25">>, <<"U+D836", "U+DE26">>,
     <<"U+D836", "U+DE27">>, <<"U+D836", "U+DE28">>, <<"U+D836", "U+DE29">>,
     <<"U+D836", "U+DE2A">>, <<"U+D836", "U+DE2B">>, <<"U+D836", "U+DE2C">>,
     <<"U+D836", "U+DE2D">>, <<"U+D836", "U+DE2E">>, <<"U+D836", "U+DE2F">>,
     <<"U+D836", "U+DE30">>, <<"U+D836", "U+DE31">>, <<"U+D836", "U+DE32">>,
     <<"U+D836", "U+DE33">>, <<"U+D836", "U+DE34">>, <<"U+D836", "U+DE35">>,
     <<"U+D836", "U+DE36">>, <<"U+D836", "U+DE3B">>, <<"U+D836", "U+DE3C">>,
     <<"U+D836", "U+DE3D">>, <<"U+D836", "U+DE3E">>, <<"U+D836", "U+DE3F">>,
     <<"U+D836", "U+DE40">>, <<"U+D836", "U+DE41">>, <<"U+D836", "U+DE42">>,
     <<"U+D836", "U+DE43">>, <<"U+D836", "U+DE44">>, <<"U+D836", "U+DE45">>,
     <<"U+D836", "U+DE46">>, <<"U+D836", "U+DE47">>, <<"U+D836", "U+DE48">>,
     <<"U+D836", "U+DE49">>, <<"U+D836", "U+DE4A">>, <<"U+D836", "U+DE4B">>,
     <<"U+D836", "U+DE4C">>, <<"U+D836", "U+DE4D">>, <<"U+D836", "U+DE4E">>,
     <<"U+D836", "U+DE4F">>, <<"U+D836", "U+DE50">>, <<"U+D836", "U+DE51">>,
     <<"U+D836", "U+DE52">>, <<"U+D836", "U+DE53">>, <<"U+D836", "U+DE54">>,
     <<"U+D836", "U+DE55">>, <<"U+D836", "U+DE56">>, <<"U+D836", "U+DE57">>,
     <<"U+D836", "U+DE58">>, <<"U+D836", "U+DE59">>, <<"U+D836", "U+DE5A">>,
     <<"U+D836", "U+DE5B">>, <<"U+D836", "U+DE5C">>, <<"U+D836", "U+DE5D">>,
     <<"U+D836", "U+DE5E">>, <<"U+D836", "U+DE5F">>, <<"U+D836", "U+DE60">>,
     <<"U+D836", "U+DE61">>, <<"U+D836", "U+DE62">>, <<"U+D836", "U+DE63">>,
     <<"U+D836", "U+DE64">>, <<"U+D836", "U+DE65">>, <<"U+D836", "U+DE66">>,
     <<"U+D836", "U+DE67">>, <<"U+D836", "U+DE68">>, <<"U+D836", "U+DE69">>,
     <<"U+D836", "U+DE6A">>, <<"U+D836", "U+DE6B">>, <<"U+D836", "U+DE6C">>,
     <<"U+D836", "U+DE75">>, <<"U+D836", "U+DE84">>, <<"U+D836", "U+DE9B">>,
     <<"U+D836", "U+DE9C">>, <<"U+D836", "U+DE9D">>, <<"U+D836", "U+DE9E">>,
     <<"U+D836", "U+DE9F">>, <<"U+D836", "U+DEA1">>, <<"U+D836", "U+DEA2">>,
     <<"U+D836", "U+DEA3">>, <<"U+D836", "U+DEA4">>, <<"U+D836", "U+DEA5">>,
     <<"U+D836", "U+DEA6">>, <<"U+D836", "U+DEA7">>, <<"U+D836", "U+DEA8">>,
     <<"U+D836", "U+DEA9">>, <<"U+D836", "U+DEAA">>, <<"U+D836", "U+DEAB">>,
     <<"U+D836", "U+DEAC">>, <<"U+D836", "U+DEAD">>, <<"U+D836", "U+DEAE">>,
     <<"U+D836", "U+DEAF">>, <<"U+D838", "U+DC00">>, <<"U+D838", "U+DC01">>,
     <<"U+D838", "U+DC02">>, <<"U+D838", "U+DC03">>, <<"U+D838", "U+DC04">>,
     <<"U+D838", "U+DC05">>, <<"U+D838", "U+DC06">>, <<"U+D838", "U+DC08">>,
     <<"U+D838", "U+DC09">>, <<"U+D838", "U+DC0A">>, <<"U+D838", "U+DC0B">>,
     <<"U+D838", "U+DC0C">>, <<"U+D838", "U+DC0D">>, <<"U+D838", "U+DC0E">>,
     <<"U+D838", "U+DC0F">>, <<"U+D838", "U+DC10">>, <<"U+D838", "U+DC11">>,
     <<"U+D838", "U+DC12">>, <<"U+D838", "U+DC13">>, <<"U+D838", "U+DC14">>,
     <<"U+D838", "U+DC15">>, <<"U+D838", "U+DC16">>, <<"U+D838", "U+DC17">>,
     <<"U+D838", "U+DC18">>, <<"U+D838", "U+DC1B">>, <<"U+D838", "U+DC1C">>,
     <<"U+D838", "U+DC1D">>, <<"U+D838", "U+DC1E">>, <<"U+D838", "U+DC1F">>,
     <<"U+D838", "U+DC20">>, <<"U+D838", "U+DC21">>, <<"U+D838", "U+DC23">>,
     <<"U+D838", "U+DC24">>, <<"U+D838", "U+DC26">>, <<"U+D838", "U+DC27">>,
     <<"U+D838", "U+DC28">>, <<"U+D838", "U+DC29">>, <<"U+D838", "U+DC2A">>,
     <<"U+D838", "U+DC30">>, <<"U+D838", "U+DC31">>, <<"U+D838", "U+DC32">>,
     <<"U+D838", "U+DC33">>, <<"U+D838", "U+DC34">>, <<"U+D838", "U+DC35">>,
     <<"U+D838", "U+DC36">>, <<"U+D838", "U+DC37">>, <<"U+D838", "U+DC38">>,
     <<"U+D838", "U+DC39">>, <<"U+D838", "U+DC3A">>, <<"U+D838", "U+DC3B">>,
     <<"U+D838", "U+DC3C">>, <<"U+D838", "U+DC3D">>, <<"U+D838", "U+DC3E">>,
     <<"U+D838", "U+DC3F">>, <<"U+D838", "U+DC40">>, <<"U+D838", "U+DC41">>,
     <<"U+D838", "U+DC42">>, <<"U+D838", "U+DC43">>, <<"U+D838", "U+DC44">>,
     <<"U+D838", "U+DC45">>, <<"U+D838", "U+DC46">>, <<"U+D838", "U+DC47">>,
     <<"U+D838", "U+DC48">>, <<"U+D838", "U+DC49">>, <<"U+D838", "U+DC4A">>,
     <<"U+D838", "U+DC4B">>, <<"U+D838", "U+DC4C">>, <<"U+D838", "U+DC4D">>,
     <<"U+D838", "U+DC4E">>, <<"U+D838", "U+DC4F">>, <<"U+D838", "U+DC50">>,
     <<"U+D838", "U+DC51">>, <<"U+D838", "U+DC52">>, <<"U+D838", "U+DC53">>,
     <<"U+D838", "U+DC54">>, <<"U+D838", "U+DC55">>, <<"U+D838", "U+DC56">>,
     <<"U+D838", "U+DC57">>, <<"U+D838", "U+DC58">>, <<"U+D838", "U+DC59">>,
     <<"U+D838", "U+DC5A">>, <<"U+D838", "U+DC5B">>, <<"U+D838", "U+DC5C">>,
     <<"U+D838", "U+DC5D">>, <<"U+D838", "U+DC5E">>, <<"U+D838", "U+DC5F">>,
     <<"U+D838", "U+DC60">>, <<"U+D838", "U+DC61">>, <<"U+D838", "U+DC62">>,
     <<"U+D838", "U+DC63">>, <<"U+D838", "U+DC64">>, <<"U+D838", "U+DC65">>,
     <<"U+D838", "U+DC66">>, <<"U+D838", "U+DC67">>, <<"U+D838", "U+DC68">>,
     <<"U+D838", "U+DC69">>, <<"U+D838", "U+DC6A">>, <<"U+D838", "U+DC6B">>,
     <<"U+D838", "U+DC6C">>, <<"U+D838", "U+DC6D">>, <<"U+D838", "U+DC8F">>,
     <<"U+D838", "U+DD30">>, <<"U+D838", "U+DD31">>, <<"U+D838", "U+DD32">>,
     <<"U+D838", "U+DD33">>, <<"U+D838", "U+DD34">>, <<"U+D838", "U+DD35">>,
     <<"U+D838", "U+DD36">>, <<"U+D838", "U+DD37">>, <<"U+D838", "U+DD38">>,
     <<"U+D838", "U+DD39">>, <<"U+D838", "U+DD3A">>, <<"U+D838", "U+DD3B">>,
     <<"U+D838", "U+DD3C">>, <<"U+D838", "U+DD3D">>, <<"U+D838", "U+DEAE">>,
     <<"U+D838", "U+DEEC">>, <<"U+D838", "U+DEED">>, <<"U+D838", "U+DEEE">>,
     <<"U+D838", "U+DEEF">>, <<"U+D839", "U+DCEB">>, <<"U+D839", "U+DCEC">>,
     <<"U+D839", "U+DCED">>, <<"U+D839", "U+DCEE">>, <<"U+D839", "U+DCEF">>,
     <<"U+D839", "U+DDEE">>, <<"U+D839", "U+DDEF">>, <<"U+D839", "U+DEE3">>,
     <<"U+D839", "U+DEE6">>, <<"U+D839", "U+DEEE">>, <<"U+D839", "U+DEEF">>,
     <<"U+D839", "U+DEF5">>, <<"U+D839", "U+DEFF">>, <<"U+D83A", "U+DCD0">>,
     <<"U+D83A", "U+DCD1">>, <<"U+D83A", "U+DCD2">>, <<"U+D83A", "U+DCD3">>,
     <<"U+D83A", "U+DCD4">>, <<"U+D83A", "U+DCD5">>, <<"U+D83A", "U+DCD6">>,
     <<"U+D83A", "U+DD44">>, <<"U+D83A", "U+DD45">>, <<"U+D83A", "U+DD46">>,
     <<"U+D83A", "U+DD47">>, <<"U+D83A", "U+DD48">>, <<"U+D83A", "U+DD49">>,
     <<"U+D83A", "U+DD4A">>, <<"U+D83A", "U+DD4B">>, <<"U+D83C", "U+DFFB">>,
     <<"U+D83C", "U+DFFC">>, <<"U+D83C", "U+DFFD">>, <<"U+D83C", "U+DFFE">>,
     <<"U+D83C", "U+DFFF">>, <<"U+DB40", "U+DC01">>, <<"U+DB40", "U+DC20">>,
     <<"U+DB40", "U+DC21">>, <<"U+DB40", "U+DC22">>, <<"U+DB40", "U+DC23">>,
     <<"U+DB40", "U+DC24">>, <<"U+DB40", "U+DC25">>, <<"U+DB40", "U+DC26">>,
     <<"U+DB40", "U+DC27">>, <<"U+DB40", "U+DC28">>, <<"U+DB40", "U+DC29">>,
     <<"U+DB40", "U+DC2A">>, <<"U+DB40", "U+DC2B">>, <<"U+DB40", "U+DC2C">>,
     <<"U+DB40", "U+DC2D">>, <<"U+DB40", "U+DC2E">>, <<"U+DB40", "U+DC2F">>,
     <<"U+DB40", "U+DC30">>, <<"U+DB40", "U+DC31">>, <<"U+DB40", "U+DC32">>,
     <<"U+DB40", "U+DC33">>, <<"U+DB40", "U+DC34">>, <<"U+DB40", "U+DC35">>,
     <<"U+DB40", "U+DC36">>, <<"U+DB40", "U+DC37">>, <<"U+DB40", "U+DC38">>,
     <<"U+DB40", "U+DC39">>, <<"U+DB40", "U+DC3A">>, <<"U+DB40", "U+DC3B">>,
     <<"U+DB40", "U+DC3C">>, <<"U+DB40", "U+DC3D">>, <<"U+DB40", "U+DC3E">>,
     <<"U+DB40", "U+DC3F">>, <<"U+DB40", "U+DC40">>, <<"U+DB40", "U+DC41">>,
     <<"U+DB40", "U+DC42">>, <<"U+DB40", "U+DC43">>, <<"U+DB40", "U+DC44">>,
     <<"U+DB40", "U+DC45">>, <<"U+DB40", "U+DC46">>, <<"U+DB40", "U+DC47">>,
     <<"U+DB40", "U+DC48">>, <<"U+DB40", "U+DC49">>, <<"U+DB40", "U+DC4A">>,
     <<"U+DB40", "U+DC4B">>, <<"U+DB40", "U+DC4C">>, <<"U+DB40", "U+DC4D">>,
     <<"U+DB40", "U+DC4E">>, <<"U+DB40", "U+DC4F">>, <<"U+DB40", "U+DC50">>,
     <<"U+DB40", "U+DC51">>, <<"U+DB40", "U+DC52">>, <<"U+DB40", "U+DC53">>,
     <<"U+DB40", "U+DC54">>, <<"U+DB40", "U+DC55">>, <<"U+DB40", "U+DC56">>,
     <<"U+DB40", "U+DC57">>, <<"U+DB40", "U+DC58">>, <<"U+DB40", "U+DC59">>,
     <<"U+DB40", "U+DC5A">>, <<"U+DB40", "U+DC5B">>, <<"U+DB40", "U+DC5C">>,
     <<"U+DB40", "U+DC5D">>, <<"U+DB40", "U+DC5E">>, <<"U+DB40", "U+DC5F">>,
     <<"U+DB40", "U+DC60">>, <<"U+DB40", "U+DC61">>, <<"U+DB40", "U+DC62">>,
     <<"U+DB40", "U+DC63">>, <<"U+DB40", "U+DC64">>, <<"U+DB40", "U+DC65">>,
     <<"U+DB40", "U+DC66">>, <<"U+DB40", "U+DC67">>, <<"U+DB40", "U+DC68">>,
     <<"U+DB40", "U+DC69">>, <<"U+DB40", "U+DC6A">>, <<"U+DB40", "U+DC6B">>,
     <<"U+DB40", "U+DC6C">>, <<"U+DB40", "U+DC6D">>, <<"U+DB40", "U+DC6E">>,
     <<"U+DB40", "U+DC6F">>, <<"U+DB40", "U+DC70">>, <<"U+DB40", "U+DC71">>,
     <<"U+DB40", "U+DC72">>, <<"U+DB40", "U+DC73">>, <<"U+DB40", "U+DC74">>,
     <<"U+DB40", "U+DC75">>, <<"U+DB40", "U+DC76">>, <<"U+DB40", "U+DC77">>,
     <<"U+DB40", "U+DC78">>, <<"U+DB40", "U+DC79">>, <<"U+DB40", "U+DC7A">>,
     <<"U+DB40", "U+DC7B">>, <<"U+DB40", "U+DC7C">>, <<"U+DB40", "U+DC7D">>,
     <<"U+DB40", "U+DC7E">>, <<"U+DB40", "U+DC7F">>, <<"U+DB40", "U+DD00">>,
     <<"U+DB40", "U+DD01">>, <<"U+DB40", "U+DD02">>, <<"U+DB40", "U+DD03">>,
     <<"U+DB40", "U+DD04">>, <<"U+DB40", "U+DD05">>, <<"U+DB40", "U+DD06">>,
     <<"U+DB40", "U+DD07">>, <<"U+DB40", "U+DD08">>, <<"U+DB40", "U+DD09">>,
     <<"U+DB40", "U+DD0A">>, <<"U+DB40", "U+DD0B">>, <<"U+DB40", "U+DD0C">>,
     <<"U+DB40", "U+DD0D">>, <<"U+DB40", "U+DD0E">>, <<"U+DB40", "U+DD0F">>,
     <<"U+DB40", "U+DD10">>, <<"U+DB40", "U+DD11">>, <<"U+DB40", "U+DD12">>,
     <<"U+DB40", "U+DD13">>, <<"U+DB40", "U+DD14">>, <<"U+DB40", "U+DD15">>,
     <<"U+DB40", "U+DD16">>, <<"U+DB40", "U+DD17">>, <<"U+DB40", "U+DD18">>,
     <<"U+DB40", "U+DD19">>, <<"U+DB40", "U+DD1A">>, <<"U+DB40", "U+DD1B">>,
     <<"U+DB40", "U+DD1C">>, <<"U+DB40", "U+DD1D">>, <<"U+DB40", "U+DD1E">>,
     <<"U+DB40", "U+DD1F">>, <<"U+DB40", "U+DD20">>, <<"U+DB40", "U+DD21">>,
     <<"U+DB40", "U+DD22">>, <<"U+DB40", "U+DD23">>, <<"U+DB40", "U+DD24">>,
     <<"U+DB40", "U+DD25">>, <<"U+DB40", "U+DD26">>, <<"U+DB40", "U+DD27">>,
     <<"U+DB40", "U+DD28">>, <<"U+DB40", "U+DD29">>, <<"U+DB40", "U+DD2A">>,
     <<"U+DB40", "U+DD2B">>, <<"U+DB40", "U+DD2C">>, <<"U+DB40", "U+DD2D">>,
     <<"U+DB40", "U+DD2E">>, <<"U+DB40", "U+DD2F">>, <<"U+DB40", "U+DD30">>,
     <<"U+DB40", "U+DD31">>, <<"U+DB40", "U+DD32">>, <<"U+DB40", "U+DD33">>,
     <<"U+DB40", "U+DD34">>, <<"U+DB40", "U+DD35">>, <<"U+DB40", "U+DD36">>,
     <<"U+DB40", "U+DD37">>, <<"U+DB40", "U+DD38">>, <<"U+DB40", "U+DD39">>,
     <<"U+DB40", "U+DD3A">>, <<"U+DB40", "U+DD3B">>, <<"U+DB40", "U+DD3C">>,
     <<"U+DB40", "U+DD3D">>, <<"U+DB40", "U+DD3E">>, <<"U+DB40", "U+DD3F">>,
     <<"U+DB40", "U+DD40">>, <<"U+DB40", "U+DD41">>, <<"U+DB40", "U+DD42">>,
     <<"U+DB40", "U+DD43">>, <<"U+DB40", "U+DD44">>, <<"U+DB40", "U+DD45">>,
     <<"U+DB40", "U+DD46">>, <<"U+DB40", "U+DD47">>, <<"U+DB40", "U+DD48">>,
     <<"U+DB40", "U+DD49">>, <<"U+DB40", "U+DD4A">>, <<"U+DB40", "U+DD4B">>,
     <<"U+DB40", "U+DD4C">>, <<"U+DB40", "U+DD4D">>, <<"U+DB40", "U+DD4E">>,
     <<"U+DB40", "U+DD4F">>, <<"U+DB40", "U+DD50">>, <<"U+DB40", "U+DD51">>,
     <<"U+DB40", "U+DD52">>, <<"U+DB40", "U+DD53">>, <<"U+DB40", "U+DD54">>,
     <<"U+DB40", "U+DD55">>, <<"U+DB40", "U+DD56">>, <<"U+DB40", "U+DD57">>,
     <<"U+DB40", "U+DD58">>, <<"U+DB40", "U+DD59">>, <<"U+DB40", "U+DD5A">>,
     <<"U+DB40", "U+DD5B">>, <<"U+DB40", "U+DD5C">>, <<"U+DB40", "U+DD5D">>,
     <<"U+DB40", "U+DD5E">>, <<"U+DB40", "U+DD5F">>, <<"U+DB40", "U+DD60">>,
     <<"U+DB40", "U+DD61">>, <<"U+DB40", "U+DD62">>, <<"U+DB40", "U+DD63">>,
     <<"U+DB40", "U+DD64">>, <<"U+DB40", "U+DD65">>, <<"U+DB40", "U+DD66">>,
     <<"U+DB40", "U+DD67">>, <<"U+DB40", "U+DD68">>, <<"U+DB40", "U+DD69">>,
     <<"U+DB40", "U+DD6A">>, <<"U+DB40", "U+DD6B">>, <<"U+DB40", "U+DD6C">>,
     <<"U+DB40", "U+DD6D">>, <<"U+DB40", "U+DD6E">>, <<"U+DB40", "U+DD6F">>,
     <<"U+DB40", "U+DD70">>, <<"U+DB40", "U+DD71">>, <<"U+DB40", "U+DD72">>,
     <<"U+DB40", "U+DD73">>, <<"U+DB40", "U+DD74">>, <<"U+DB40", "U+DD75">>,
     <<"U+DB40", "U+DD76">>, <<"U+DB40", "U+DD77">>, <<"U+DB40", "U+DD78">>,
     <<"U+DB40", "U+DD79">>, <<"U+DB40", "U+DD7A">>, <<"U+DB40", "U+DD7B">>,
     <<"U+DB40", "U+DD7C">>, <<"U+DB40", "U+DD7D">>, <<"U+DB40", "U+DD7E">>,
     <<"U+DB40", "U+DD7F">>, <<"U+DB40", "U+DD80">>, <<"U+DB40", "U+DD81">>,
     <<"U+DB40", "U+DD82">>, <<"U+DB40", "U+DD83">>, <<"U+DB40", "U+DD84">>,
     <<"U+DB40", "U+DD85">>, <<"U+DB40", "U+DD86">>, <<"U+DB40", "U+DD87">>,
     <<"U+DB40", "U+DD88">>, <<"U+DB40", "U+DD89">>, <<"U+DB40", "U+DD8A">>,
     <<"U+DB40", "U+DD8B">>, <<"U+DB40", "U+DD8C">>, <<"U+DB40", "U+DD8D">>,
     <<"U+DB40", "U+DD8E">>, <<"U+DB40", "U+DD8F">>, <<"U+DB40", "U+DD90">>,
     <<"U+DB40", "U+DD91">>, <<"U+DB40", "U+DD92">>, <<"U+DB40", "U+DD93">>,
     <<"U+DB40", "U+DD94">>, <<"U+DB40", "U+DD95">>, <<"U+DB40", "U+DD96">>,
     <<"U+DB40", "U+DD97">>, <<"U+DB40", "U+DD98">>, <<"U+DB40", "U+DD99">>,
     <<"U+DB40", "U+DD9A">>, <<"U+DB40", "U+DD9B">>, <<"U+DB40", "U+DD9C">>,
     <<"U+DB40", "U+DD9D">>, <<"U+DB40", "U+DD9E">>, <<"U+DB40", "U+DD9F">>,
     <<"U+DB40", "U+DDA0">>, <<"U+DB40", "U+DDA1">>, <<"U+DB40", "U+DDA2">>,
     <<"U+DB40", "U+DDA3">>, <<"U+DB40", "U+DDA4">>, <<"U+DB40", "U+DDA5">>,
     <<"U+DB40", "U+DDA6">>, <<"U+DB40", "U+DDA7">>, <<"U+DB40", "U+DDA8">>,
     <<"U+DB40", "U+DDA9">>, <<"U+DB40", "U+DDAA">>, <<"U+DB40", "U+DDAB">>,
     <<"U+DB40", "U+DDAC">>, <<"U+DB40", "U+DDAD">>, <<"U+DB40", "U+DDAE">>,
     <<"U+DB40", "U+DDAF">>, <<"U+DB40", "U+DDB0">>, <<"U+DB40", "U+DDB1">>,
     <<"U+DB40", "U+DDB2">>, <<"U+DB40", "U+DDB3">>, <<"U+DB40", "U+DDB4">>,
     <<"U+DB40", "U+DDB5">>, <<"U+DB40", "U+DDB6">>, <<"U+DB40", "U+DDB7">>,
     <<"U+DB40", "U+DDB8">>, <<"U+DB40", "U+DDB9">>, <<"U+DB40", "U+DDBA">>,
     <<"U+DB40", "U+DDBB">>, <<"U+DB40", "U+DDBC">>, <<"U+DB40", "U+DDBD">>,
     <<"U+DB40", "U+DDBE">>, <<"U+DB40", "U+DDBF">>, <<"U+DB40", "U+DDC0">>,
     <<"U+DB40", "U+DDC1">>, <<"U+DB40", "U+DDC2">>, <<"U+DB40", "U+DDC3">>,
     <<"U+DB40", "U+DDC4">>, <<"U+DB40", "U+DDC5">>, <<"U+DB40", "U+DDC6">>,
     <<"U+DB40", "U+DDC7">>, <<"U+DB40", "U+DDC8">>, <<"U+DB40", "U+DDC9">>,
     <<"U+DB40", "U+DDCA">>, <<"U+DB40", "U+DDCB">>, <<"U+DB40", "U+DDCC">>,
     <<"U+DB40", "U+DDCD">>, <<"U+DB40", "U+DDCE">>, <<"U+DB40", "U+DDCF">>,
     <<"U+DB40", "U+DDD0">>, <<"U+DB40", "U+DDD1">>, <<"U+DB40", "U+DDD2">>,
     <<"U+DB40", "U+DDD3">>, <<"U+DB40", "U+DDD4">>, <<"U+DB40", "U+DDD5">>,
     <<"U+DB40", "U+DDD6">>, <<"U+DB40", "U+DDD7">>, <<"U+DB40", "U+DDD8">>,
     <<"U+DB40", "U+DDD9">>, <<"U+DB40", "U+DDDA">>, <<"U+DB40", "U+DDDB">>,
     <<"U+DB40", "U+DDDC">>, <<"U+DB40", "U+DDDD">>, <<"U+DB40", "U+DDDE">>,
     <<"U+DB40", "U+DDDF">>, <<"U+DB40", "U+DDE0">>, <<"U+DB40", "U+DDE1">>,
     <<"U+DB40", "U+DDE2">>, <<"U+DB40", "U+DDE3">>, <<"U+DB40", "U+DDE4">>,
     <<"U+DB40", "U+DDE5">>, <<"U+DB40", "U+DDE6">>, <<"U+DB40", "U+DDE7">>,
     <<"U+DB40", "U+DDE8">>, <<"U+DB40", "U+DDE9">>, <<"U+DB40", "U+DDEA">>,
     <<"U+DB40", "U+DDEB">>, <<"U+DB40", "U+DDEC">>, <<"U+DB40", "U+DDED">>,
     <<"U+DB40", "U+DDEE">>, <<"U+DB40", "U+DDEF">>}

CaseIgnorablePair(s, i) ==
    1 <= i /\ i < Len(s) /\ <<s[i], s[i + 1]>> \in CaseIgnorablePairs

\* a cased letter ends at index j or before it, case-ignorable code points
\* aside; a code point that is both cased and case-ignorable is passed over
RECURSIVE casedBefore(_, _)
casedBefore(s, j) ==
    IF j < 1 THEN FALSE
    ELSE IF CaseIgnorablePair(s, j - 1) THEN casedBefore(s, j - 2)
    ELSE IF s[j] \in CaseIgnorable THEN casedBefore(s, j - 1)
    ELSE CasedPair(s, j - 1) \/ Cased(s[j])

\* a cased letter begins at index j or behind it, case-ignorable code points
\* aside
RECURSIVE casedAfter(_, _)
casedAfter(s, j) ==
    IF j > Len(s) THEN FALSE
    ELSE IF CaseIgnorablePair(s, j) THEN casedAfter(s, j + 2)
    ELSE IF s[j] \in CaseIgnorable THEN casedAfter(s, j + 1)
    ELSE CasedPair(s, j) \/ Cased(s[j])

\* the capital sigma at index i ends a word: a cased letter stands before it
\* and none after it
FinalSigma(s, i) == casedBefore(s, i - 1) /\ ~casedAfter(s, i + 1)

\* the code units toLowerCase writes for the code unit s[i]
lowerOf(s, i) ==
    IF s[i] = "U+0130" THEN <<"i", "U+0307">>
    ELSE IF s[i] = "Σ" THEN (IF FinalSigma(s, i) THEN <<"ς">> ELSE <<"σ">>)
    ELSE IF s[i] = "U+03A3"
         THEN (IF FinalSigma(s, i) THEN <<"U+03C2">> ELSE <<"U+03C3">>)
    ELSE IF s[i] \in UpperCaseLetters
         THEN <<LowerCase[CHOOSE k \in DOMAIN UpperCase : UpperCase[k] = s[i]]>>
    ELSE <<s[i]>>

\* the code units toLowerCase writes for the pair of surrogates at index i
lowerOfPair(s, i) ==
    LowerCasePairs[CHOOSE k \in DOMAIN UpperCasePairs :
                       UpperCasePairs[k] = <<s[i], s[i + 1]>>]

RECURSIVE lowerFrom(_, _)
lowerFrom(s, i) ==
    IF i > Len(s) THEN <<>>
    ELSE IF i < Len(s) /\ <<s[i], s[i + 1]>> \in UpperCasePairLetters
         THEN lowerOfPair(s, i) \o lowerFrom(s, i + 2)
    ELSE lowerOf(s, i) \o lowerFrom(s, i + 1)

\* String.prototype.toLowerCase
toLowerCase(s) == lowerFrom(s, 1)

\* String.prototype.trim
RECURSIVE trim(_)
trim(s) ==
    IF s = <<>> THEN s
    ELSE IF Head(s) \in Whitespace THEN trim(Tail(s))
    ELSE IF s[Len(s)] \in Whitespace THEN trim(SubSeq(s, 1, Len(s) - 1))
    ELSE s

\* mapName.toLowerCase().trim(): the registry key of the callout-based build
normalisedName(s) == trim(toLowerCase(s))

----------------------------------------------------------------------------
(* CONSTANTS.TS *)

\* Num(n) stands for n / Unit: five decimals, the resolution of the client's
\* zoom tolerance 0.00001
Unit == 100000

\* the key of the bucket of the markers that name no map
NotDefinedMap == <<"n", "o", "t", "D", "e", "f", "i", "n", "e", "d", "M", "a", "p">>

\* markerMap is an object literal: besides its own keys it answers the
\* properties inherited from Object.prototype, whose values are functions
\* (or, for __proto__, Object.prototype itself), not arrays and not
\* undefined: __defineGetter__, __defineSetter__, __lookupGetter__,
\* __lookupSetter__, __proto__, constructor, hasOwnProperty, isPrototypeOf,
\* propertyIsEnumerable, toLocaleString, toString, valueOf
ObjectPrototypeKeys ==
    {<<"_", "_", "d", "e", "f", "i", "n", "e", "G", "e", "t", "t", "e",
       "r", "_", "_">>,
     <<"_", "_", "d", "e", "f", "i", "n", "e", "S", "e", "t", "t", "e",
       "r", "_", "_">>,
     <<"_", "_", "l", "o", "o", "k", "u", "p", "G", "e", "t", "t", "e",
       "r", "_", "_">>,
     <<"_", "_", "l", "o", "o", "k", "u", "p", "S", "e", "t", "t", "e",
       "r", "_", "_">>,
     <<"_", "_", "p", "r", "o", "t", "o", "_", "_">>,
     <<"c", "o", "n", "s", "t", "r", "u", "c", "t", "o", "r">>,
     <<"h", "a", "s", "O", "w", "n", "P", "r", "o", "p", "e", "r", "t",
       "y">>,
     <<"i", "s", "P", "r", "o", "t", "o", "t", "y", "p", "e", "O", "f">>,
     <<"p", "r", "o", "p", "e", "r", "t", "y", "I", "s", "E", "n", "u",
       "m", "e", "r", "a", "b", "l", "e">>,
     <<"t", "o", "L", "o", "c", "a", "l", "e", "S", "t", "r", "i", "n",
       "g">>,
     <<"t", "o", "S", "t", "r", "i", "n", "g">>,
     <<"v", "a", "l", "u", "e", "O", "f">>}

\* /[0-9]+\s*,\s*[0-9]+/.test(s): not anchored, so a match anywhere counts
coordinatesValidation(s) ==
    \E i \in 1..Len(s), j \in 1..Len(s), k \in 1..Len(s) :
        /\ i < j /\ j < k
        /\ s[i] \in Digits /\ s[j] = "," /\ s[k] \in Digits
        /\ AllWhitespace(s, i + 1, j - 1)
        /\ AllWhitespace(s, j + 1, k - 1)

\* /([a-z]+:)?[a-z]+([\-][a-z]+)*/.test(s): not anchored; the prefix group is
\* optional and the suffix group may repeat zero times, so a match is one
\* lowercase letter anywhere
iconValidation(s) == \E i \in 1..Len(s) : s[i] \in LowerLetters

\* /([0-9A-F]{3}){1,2}$/i.test(s): anchored at the end only
hexColourValidation(s) ==
    \E n \in {3, 6} :
        /\ Len(s) >= n
        /\ \A x \in (Len(s) - n + 1)..Len(s) : s[x] \in Digits \cup HexLetters

C_map_default ==
    [minZoom |-> Num(0), maxZoom |-> Num(2 * Unit), zoomDelta |-> Num(Unit \div 2),
     height |-> Num(600 * Unit), scale |-> Num(Unit), unit |-> Str(<<>>)]

----------------------------------------------------------------------------
(* Numbers *)

\* A number is a double, and stands here as the shortest decimal numeral that
\* reads as this double, the numeral String(number) writes.  Num(n) stands for
\* n / Unit, a number of at most five decimals whose whole part is below
\* 21474.  A number of more decimals is [num |-> n, below |-> d, neg |-> b]:
\* n / Unit is the number cut off after the fifth decimal, d are the decimals
\* that follow, the last of them not 0, and b says whether the number is
\* negative.  A number from 21474 on is [big |-> d, point |-> p, neg |-> b]:
\* 0.d times 10^p for the digits d, which neither begin nor end with 0.

DigitValue ==
    ("0" :> 0) @@ ("1" :> 1) @@ ("2" :> 2) @@ ("3" :> 3) @@ ("4" :> 4) @@
    ("5" :> 5) @@ ("6" :> 6) @@ ("7" :> 7) @@ ("8" :> 8) @@ ("9" :> 9)

DigitChars == <<"0", "1", "2", "3", "4", "5", "6", "7", "8", "9">>

\* the decimal digits of a natural number
RECURSIVE digitsOf(_)
digitsOf(n) ==
    IF n < 10 THEN <<DigitChars[n + 1]>>
    ELSE digitsOf(n \div 10) \o <<DigitChars[(n % 10) + 1]>>

\* the digits of f written in width places, zeros in front
RECURSIVE paddedDigits(_, _)
paddedDigits(f, width) ==
    IF width = 0 THEN <<>>
    ELSE paddedDigits(f \div 10, width - 1) \o <<DigitChars[(f % 10) + 1]>>

\* the decimal places of f / 10^width without the zeros at the end
RECURSIVE fractionDigits(_, _)
fractionDigits(f, width) ==
    IF f % 10 = 0 THEN fractionDigits(f \div 10, width - 1)
    ELSE paddedDigits(f, width)

\* String(number) for a number of n / Unit
numberToString(n) ==
    LET a == IF n < 0 THEN 0 - n ELSE n
    IN (IF n < 0 THEN <<"-">> ELSE <<>>)
       \o digitsOf(a \div Unit)
       \o (IF a % Unit = 0 THEN <<>> ELSE <<".">> \o fractionDigits(a % Unit, 5))

\* the digits s[i..j-1] read as an integer
RECURSIVE integerOf(_, _, _)
integerOf(s, i, j) ==
    IF j <= i THEN 0 ELSE 10 * integerOf(s, i, j - 1) + DigitValue[s[j - 1]]

zeros(n) == [i \in 1..n |-> "0"]

\* the number of zeros d begins with, and the number it ends with
zerosInFront(d) ==
    IF \A i \in 1..Len(d) : d[i] = "0" THEN Len(d)
    ELSE (CHOOSE j \in 1..Len(d) : d[j] # "0" /\ \A t \in 1..(j - 1) : d[t] = "0") - 1

zerosBehind(d) ==
    IF \A i \in 1..Len(d) : d[i] = "0" THEN Len(d)
    ELSE Len(d) - (CHOOSE j \in 1..Len(d) :
                       d[j] # "0" /\ \A t \in (j + 1)..Len(d) : d[t] = "0")

\* the decimal j of 0.x
decimalAt(x, j) == IF j <= Len(x) THEN DigitValue[x[j]] ELSE 0

\* 0.x < 0.y for two sequences of decimals: y holds the larger decimal where
\* they first differ
fractionLess(x, y) ==
    \E j \in 1..Len(y) :
        /\ decimalAt(x, j) < decimalAt(y, j)
        /\ \A t \in 1..(j - 1) : decimalAt(x, t) = decimalAt(y, t)

belowOf(v) == IF "below" \in DOMAIN v THEN v.below ELSE <<>>

isNegative(v) ==
    IF "big" \in DOMAIN v THEN v.neg
    ELSE v.num < 0 \/ ("below" \in DOMAIN v /\ v.neg)

\* |a| < |b| for two numbers of which one at least is 21474 or more
bigLess(a, b) ==
    IF "big" \notin DOMAIN a THEN TRUE
    ELSE IF "big" \notin DOMAIN b THEN FALSE
    ELSE IF a.point # b.point THEN a.point < b.point
    ELSE fractionLess(a.big, b.big)

\* a < b for two numbers other than NaN
less(a, b) ==
    IF "inf" \in DOMAIN a \/ "inf" \in DOMAIN b
    THEN (IF "inf" \in DOMAIN a THEN a.inf ELSE 0)
             < (IF "inf" \in DOMAIN b THEN b.inf ELSE 0)
    ELSE IF "big" \in DOMAIN a \/ "big" \in DOMAIN b
         THEN (IF isNegative(a) # isNegative(b) THEN isNegative(a)
               ELSE IF isNegative(a) THEN bigLess(b, a)
               ELSE bigLess(a, b))
    ELSE IF a.num # b.num THEN a.num < b.num
    ELSE IF isNegative(a) # isNegative(b) THEN isNegative(a)
    ELSE IF isNegative(a) THEN fractionLess(belowOf(b), belowOf(a))
    ELSE fractionLess(belowOf(a), belowOf(b))

\* the whole part and all five decimals of a / Unit
numberToStringPadded(a) == digitsOf(a \div Unit) \o <<".">> \o paddedDigits(a % Unit, 5)

\* the digits m, the first of them not 0, times 10^-k
exponentForm(m, k) ==
    <<Head(m)>> \o (IF Len(m) > 1 THEN <<".">> \o Tail(m) ELSE <<>>)
        \o <<"e", "-">> \o digitsOf(k)

\* String(number) of a number with decimals beyond the fifth: from 0.000001 on
\* all its decimals, below that the exponent form
belowToString(v) ==
    (IF v.neg THEN <<"-">> ELSE <<>>)
    \o (IF v.num # 0 \/ Head(v.below) # "0"
        THEN numberToStringPadded(IF v.num < 0 THEN 0 - v.num ELSE v.num) \o v.below
        ELSE exponentForm(SubSeq(v.below, zerosInFront(v.below) + 1, Len(v.below)),
                          6 + zerosInFront(v.below)))

\* String(number) of a number from 21474 on: its digits up to 10^21, from
\* there on the exponent form
bigToString(v) ==
    (IF v.neg THEN <<"-">> ELSE <<>>)
    \o (IF v.point > 21
        THEN <<Head(v.big)>> \o (IF Len(v.big) > 1 THEN <<".">> \o Tail(v.big) ELSE <<>>)
                 \o <<"e", "+">> \o digitsOf(v.point - 1)
        ELSE IF Len(v.big) <= v.point THEN v.big \o zeros(v.point - Len(v.big))
        ELSE SubSeq(v.big, 1, v.point) \o <<".">> \o SubSeq(v.big, v.point + 1, Len(v.big)))

\* String(number)
NumberToString(v) ==
    IF v = NaN THEN <<"N", "a", "N">>
    ELSE IF "inf" \in DOMAIN v
         THEN (IF v.inf < 0 THEN <<"-">> ELSE <<>>)
                  \o <<"I", "n", "f", "i", "n", "i", "t", "y">>
    ELSE IF "big" \in DOMAIN v THEN bigToString(v)
    ELSE IF "below" \in DOMAIN v THEN belowToString(v)
    ELSE numberToString(v.num)

\* the elements of an array joined by commas, null and undefined as nothing;
\* TypeError when the toString of an element throws
joined(separator, element, rest) ==
    IF element = TypeError \/ rest = TypeError THEN TypeError
    ELSE Str(separator \o element.str \o rest.str)

\* value.toString() of a string, a number, an array or an object.  An object
\* of the data has no function among its properties: with an own property
\* toString the call is a TypeError, without one it is Object.prototype's.
RECURSIVE toStringOf(_)
RECURSIVE joinFrom(_, _)
toStringOf(value) ==
    IF IsString(value) THEN value
    ELSE IF IsNumber(value) THEN Str(NumberToString(value))
    ELSE IF IsArray(value) THEN joinFrom(value.arr, 1)
    ELSE IF "toString" \in DOMAIN value.obj THEN TypeError
    ELSE Str(<<"[", "o", "b", "j", "e", "c", "t", " ", "O", "b", "j", "e", "c", "t", "]">>)

joinFrom(array, i) ==
    IF i > Len(array) THEN Str(<<>>)
    ELSE joined(IF i > 1 THEN <<",">> ELSE <<>>,
                IF array[i] = Undefined \/ array[i] = Null THEN Str(<<>>)
                ELSE toStringOf(array[i]),
                joinFrom(array, i + 1))


----------------------------------------------------------------------------
(* Doubles *)

\* A natural number of any size is the sequence of its decimal digits as
\* integers, the most significant first; zeros in front are allowed
digitValues(d) == <<>> \o [i \in 1..Len(d) |-> DigitValue[d[i]]]
digitCharsOf(x) == <<>> \o [i \in 1..Len(x) |-> DigitChars[x[i] + 1]]
noughts(n) == <<>> \o [i \in 1..n |-> 0]
padded(x, n) == noughts(n - Len(x)) \o x
widest(x, y) == IF Len(x) < Len(y) THEN Len(y) ELSE Len(x)

\* the first index from i on at which x and y differ
firstDifference(x, y, i) ==
    CHOOSE j \in i..Len(x) : x[j] # y[j] /\ \A t \in i..(j - 1) : x[t] = y[t]

\* x[i..] < y[i..] for x and y of one length
lessFrom(x, y, i) ==
    /\ \E j \in i..Len(x) : x[j] # y[j]
    /\ x[firstDifference(x, y, i)] < y[firstDifference(x, y, i)]

natLess(x, y) == lessFrom(padded(x, widest(x, y)), padded(y, widest(x, y)), 1)

\* x - y for x >= y of one length: a digit lends when what follows it in x is
\* less than what follows it in y
minusPadded(x, y) ==
    <<>> \o [i \in 1..Len(x) |->
                (10 + x[i] - y[i] - (IF lessFrom(x, y, i + 1) THEN 1 ELSE 0)) % 10]

minus(x, y) == minusPadded(padded(x, widest(x, y)), padded(y, widest(x, y)))

\* x + y for x and y of one length that begin with a zero: a digit takes a
\* carry when behind it two digits add up to 10 or more, and all between them
\* and it add up to 9
sumPadded(x, y) ==
    <<>> \o [i \in 1..Len(x) |->
                (x[i] + y[i]
                    + (IF \E j \in (i + 1)..Len(x) :
                              /\ x[j] + y[j] >= 10
                              /\ \A t \in (i + 1)..(j - 1) : x[t] + y[t] = 9
                       THEN 1 ELSE 0)) % 10]

sum(x, y) == sumPadded(padded(x, widest(x, y) + 1), padded(y, widest(x, y) + 1))

\* the digit j of x, 0 outside of it, and the number of the seven digits from
\* i on
digitAt(x, j) == IF j >= 1 /\ j <= Len(x) THEN x[j] ELSE 0

sevenFrom(x, i) ==
    digitAt(x, i) * 1000000 + digitAt(x, i + 1) * 100000
        + digitAt(x, i + 2) * 10000 + digitAt(x, i + 3) * 1000
        + digitAt(x, i + 4) * 100 + digitAt(x, i + 5) * 10 + digitAt(x, i + 6)

\* 2 * x: a digit takes a carry when the digit behind it is 5 or more
dbl(x) ==
    (IF x[1] >= 5 THEN <<1>> ELSE <<>>)
    \o [i \in 1..Len(x) |->
           ((2 * x[i]) % 10) + (IF i < Len(x) /\ x[i + 1] >= 5 THEN 1 ELSE 0)]

\* x \div 2: a digit takes 5 when the digit before it is odd
half(x) ==
    <<>> \o [i \in 1..Len(x) |->
                (x[i] \div 2) + (IF i > 1 /\ x[i - 1] % 2 = 1 THEN 5 ELSE 0)]

\* 5 * x = 10 * x / 2
timesFive(x) == half(x \o <<0>>)

\* 2^7 * x for an x with three zeros in front: the carry into a digit is the
\* whole part of 2^7 * 0.d for the digits d behind it, and seven of them
\* decide it, 10^7 being a multiple of 2^7
times128Padded(x) ==
    <<>> \o [i \in 1..Len(x) |->
                (128 * x[i] + ((128 * sevenFrom(x, i + 1)) \div 10000000)) % 10]

times128(x) == times128Padded(<<0, 0, 0>> \o x)

\* x / 2^7 for a multiple x of 2^7: what is left of the digits before a digit
\* is what is left of the seven digits before it
over128(x) ==
    <<>> \o [i \in 1..Len(x) |->
                (10 * (sevenFrom(x, i - 7) % 128) + x[i]) \div 128]

\* 5^7 * x = 10^7 * x / 2^7
times78125(x) == over128(x \o <<0, 0, 0, 0, 0, 0, 0>>)

\* c times one step: times 2 or 5, or times 2^7 or 5^7
RECURSIVE stepped(_, _, _, _)
stepped(x, c, five, seven) ==
    IF Len(x) = 0 \/ c = 0 THEN x
    ELSE stepped(IF five THEN (IF seven THEN times78125(x) ELSE timesFive(x))
                 ELSE (IF seven THEN times128(x) ELSE dbl(x)),
                 c - 1, five, seven)

\* c times six steps of 2^7 or 5^7, and c times thirty-six of them
RECURSIVE steppedSixes(_, _, _)
steppedSixes(x, c, five) ==
    IF Len(x) = 0 \/ c = 0 THEN x
    ELSE steppedSixes(stepped(x, 6, five, TRUE), c - 1, five)

RECURSIVE steppedThirtySixes(_, _, _)
steppedThirtySixes(x, c, five) ==
    IF Len(x) = 0 \/ c = 0 THEN x
    ELSE steppedThirtySixes(steppedSixes(x, 6, five), c - 1, five)

\* x times 2^n, or times 5^n
timesPower(x, n, five) ==
    stepped(stepped(steppedSixes(steppedThirtySixes(x, n \div 252, five),
                                 (n % 252) \div 42, five),
                    (n % 42) \div 7, five, TRUE),
            n % 7, five, FALSE)

\* the bits of a mantissa, the smallest exponent of a double, and the largest
MantissaBits == 53
MinExponent == 0 - 1074
MaxExponent == 971

\* an exponent k with 2^(k + 52) <= 10^(p - 1), from log2(10) = 3.32192...,
\* and not below MinExponent
exponentBelow(p) ==
    IF (((p - 1) * (IF p >= 1 THEN 33219 ELSE 33220)) \div 10000) - 52 < MinExponent
    THEN MinExponent
    ELSE (((p - 1) * (IF p >= 1 THEN 33219 ELSE 33220)) \div 10000) - 52

\* n, t and k with number = n / (t / 2^52) * 2^k for the number n / t and the
\* exponent k
scaled(n, t, k) ==
    [n |-> IF k < 0 THEN timesPower(n, 0 - k, FALSE) ELSE n,
     t |-> timesPower(t, (MantissaBits - 1) + (IF k > 0 THEN k ELSE 0), FALSE),
     k |-> k]

\* the exponent raised to t <= n < 2t; below the normal doubles it stays at
\* MinExponent with n < t
RECURSIVE normalised(_)
normalised(x) ==
    IF natLess(x.n, dbl(x.t)) THEN x
    ELSE normalised([x EXCEPT !.t = dbl(@), !.k = @ + 1])

bitOf(r, t) == IF natLess(r, t) THEN 0 ELSE 1
restOf(r, t) == IF natLess(r, t) THEN r ELSE minus(r, t)

\* up to c more bits of the quotient: m.bits are its bits so far, the most
\* significant first, m.rest is what is left to divide, and m.unit is the
\* divisor of the next bit, which halves with every bit but the last
RECURSIVE mantissaBits(_, _)
mantissaBits(m, c) ==
    IF c = 0 \/ Len(m.bits) = MantissaBits THEN m
    ELSE mantissaBits([bits |-> Append(m.bits, bitOf(m.rest, m.unit)),
                       rest |-> restOf(m.rest, m.unit),
                       unit |-> IF Len(m.bits) = MantissaBits - 1 THEN m.unit
                                ELSE half(m.unit),
                       k |-> m.k],
                      c - 1)

\* the 53 bits of x.n \div (x.t / 2^52), what is left, and the divisor
mantissa(x) ==
    mantissaBits(mantissaBits(mantissaBits(mantissaBits(mantissaBits(mantissaBits(
        mantissaBits([bits |-> <<>>, rest |-> x.n, unit |-> x.t, k |-> x.k],
                     8), 8), 8), 8), 8), 8), 8)

\* the last index at which bits holds b
lastBit(bits, b) ==
    CHOOSE j \in 1..Len(bits) :
        bits[j] = b /\ \A t \in (j + 1)..Len(bits) : bits[t] # b

plusOne(bits) ==
    <<>> \o [i \in 1..Len(bits) |->
                IF i < lastBit(bits, 0) THEN bits[i]
                ELSE IF i = lastBit(bits, 0) THEN 1 ELSE 0]

minusOne(bits) ==
    <<>> \o [i \in 1..Len(bits) |->
                IF i < lastBit(bits, 1) THEN bits[i]
                ELSE IF i = lastBit(bits, 1) THEN 0 ELSE 1]

\* round to nearest, ties to even: up when more than half a unit is left, or
\* just half of it and the mantissa is odd
roundsUp(m) ==
    IF natLess(m.unit, dbl(m.rest)) THEN TRUE
    ELSE IF natLess(dbl(m.rest), m.unit) THEN FALSE
    ELSE m.bits[MantissaBits] = 1

\* the double bits * 2^k of a quotient
doubleOf(m) ==
    IF ~roundsUp(m) THEN [bits |-> m.bits, k |-> m.k]
    ELSE IF \E i \in 1..MantissaBits : m.bits[i] = 0
         THEN [bits |-> plusOne(m.bits), k |-> m.k]
    ELSE [bits |-> <<1>> \o noughts(MantissaBits - 1), k |-> m.k + 1]

\* the double nearest to 0.d * 10^p, d being digits that do not begin with 0:
\* the quotient of d followed by p - Len(d) zeros, or of d by 10^(Len(d) - p)
nearestDouble(d, p) ==
    doubleOf(mantissa(normalised(scaled(
        digitValues(d) \o noughts(IF p > Len(d) THEN p - Len(d) ELSE 0),
        <<1>> \o noughts(IF p < Len(d) THEN Len(d) - p ELSE 0),
        exponentBelow(p)))))

\* x + b for an even x and a bit b
plusBit(x, b) == [x EXCEPT ![Len(x)] = @ + b]

\* the natural number x followed by up to c of the bits from index i on
RECURSIVE natOfBitsFrom(_, _, _, _)
natOfBitsFrom(bits, x, i, c) ==
    IF Len(x) = 0 \/ c = 0 \/ i > Len(bits) THEN x
    ELSE natOfBitsFrom(bits, plusBit(dbl(x), bits[i]), i + 1, c - 1)

\* the natural number of up to 56 bits
natOfBits(bits) ==
    natOfBitsFrom(bits, natOfBitsFrom(bits, natOfBitsFrom(bits, natOfBitsFrom(bits,
        natOfBitsFrom(bits, natOfBitsFrom(bits, natOfBitsFrom(bits, <<0>>,
            1, 8), 9, 8), 17, 8), 25, 8), 33, 8), 41, 8), 49, 8)

\* the digits of bits * 2^e; for e < 0 the last -e of them are decimals
expansion(bits, e) ==
    IF e >= 0 THEN timesPower(natOfBits(bits), e, FALSE)
    ELSE timesPower(natOfBits(bits), 0 - e, TRUE)

\* the numbers that read as the double x lie between the middle to the double
\* below it and the middle to the double above it; in quarters of the unit of
\* x these are 4m - 2 (4m - 1 where the doubles below lie twice as close) and
\* 4m + 2, and x is 4m
middleBelow(x) ==
    minusOne(x.bits)
        \o (IF x.bits = <<1>> \o noughts(MantissaBits - 1) /\ x.k > MinExponent
            THEN <<1, 1>> ELSE <<1, 0>>)

\* c reads as the double: the middles count for an even mantissa
within(c, lo, hi, even) ==
    IF even THEN ~natLess(c, lo) /\ ~natLess(hi, c)
    ELSE natLess(lo, c) /\ natLess(c, hi)

\* v cut off behind its digit q, and the next numeral of that many digits
cutBelow(v, q) == SubSeq(v, 1, q) \o noughts(Len(v) - q)

lastNotNine(v, q) ==
    CHOOSE j \in 1..q : v[j] # 9 /\ \A t \in (j + 1)..q : v[t] = 9

cutAbove(v, q) ==
    <<>> \o [i \in 1..Len(v) |->
                IF i < lastNotNine(v, q) THEN v[i]
                ELSE IF i = lastNotNine(v, q) THEN v[i] + 1 ELSE 0]

\* v is nearer to cutBelow than to cutAbove, or as near with an even digit q
nearerBelow(v, q) ==
    \/ v[q + 1] < 5
    \/ /\ v[q + 1] = 5
       /\ \A t \in (q + 2)..Len(v) : v[t] = 0
       /\ v[q] % 2 = 0

\* the numeral of the fewest digits that reads as the double v, and of these
\* the one nearest to v; v, lo and hi have one length and begin with a zero
RECURSIVE shortestFrom(_, _, _, _, _)
shortestFrom(v, lo, hi, even, q) ==
    IF q >= Len(v) \/ \A t \in (q + 1)..Len(v) : v[t] = 0 THEN v
    ELSE IF within(cutBelow(v, q), lo, hi, even) /\ within(cutAbove(v, q), lo, hi, even)
         THEN (IF nearerBelow(v, q) THEN cutBelow(v, q) ELSE cutAbove(v, q))
    ELSE IF within(cutBelow(v, q), lo, hi, even) THEN cutBelow(v, q)
    ELSE IF within(cutAbove(v, q), lo, hi, even) THEN cutAbove(v, q)
    ELSE shortestFrom(v, lo, hi, even, q + 1)

shortestPadded(v, lo, hi, even, width) ==
    shortestFrom(padded(v, width), padded(lo, width), padded(hi, width), even,
                 firstDifference(padded(v, width), noughts(width), 1))

shortestOf(v, lo, hi, even) ==
    shortestPadded(v, lo, hi, even, widest(v, hi) + 1)

\* the digits of the shortest numeral of the double x in quarters of its unit
shortestDigits(x) ==
    shortestOf(expansion(x.bits \o <<0, 0>>, x.k - 2),
               expansion(middleBelow(x), x.k - 2),
               expansion(x.bits \o <<1, 0>>, x.k - 2),
               x.bits[MantissaBits] = 0)

----------------------------------------------------------------------------
(* UTIL.TS *)

\* Object.keys.length: the number of parameters of the function Object.keys
ObjectKeysLength == 1

isNonEmptyObject(value) ==
    IF Falsy(value) \/ typeof(value) # "object" THEN FALSE
    ELSE ObjectKeysLength > 0

isNotNull(value) == value # Null

\* a maximum that keeps its first argument
MathMaxFirst(a, b) == a

\* Math.max and Math.min of two numbers
MathMax(a, b) == IF a = NaN \/ b = NaN THEN NaN ELSE IF less(a, b) THEN b ELSE a
MathMin(a, b) == IF a = NaN \/ b = NaN THEN NaN ELSE IF less(b, a) THEN b ELSE a

\* a clamp that keeps the value
clampNone(value, min, max) == value

clamp(value, min, max) == MathMin(MathMax(value, min), max)

----------------------------------------------------------------------------
(* VALIDATORS.TS *)

stringValidator(value) == typeof(value) = "string"

\* typeof value === "string" ? value : value?.toString(), then !!preparedValue
sourcevalidator(value) ==
    IF IsString(value) THEN Returned(value.str # <<>>)
    ELSE IF value = Undefined \/ value = Null THEN Returned(FALSE)
    ELSE IF toStringOf(value) = TypeError THEN TypeError
    ELSE Returned(toStringOf(value).str # <<>>)

\* Number.isFinite
numberValidator(value) == "num" \in DOMAIN value \/ "big" \in DOMAIN value

positiveNumberValidator(value) == numberValidator(value) /\ less(Num(0), value)

coordinatesValidator(value) ==
    typeof(value) = "string" /\ coordinatesValidation(value.str)

iconValidator(value) == typeof(value) = "string" /\ iconValidation(value.str)

colourValidator(value) ==
    typeof(value) = "string" /\ hexColourValidation(value.str)

\* how the call of a validator ends
Validator(name, value) ==
    CASE name = "string" -> Returned(stringValidator(value))
      [] name = "source" -> sourcevalidator(value)
      [] name = "number" -> Returned(numberValidator(value))
      [] name = "positiveNumber" -> Returned(positiveNumberValidator(value))
      [] name = "coordinates" -> Returned(coordinatesValidator(value))
      [] name = "icon" -> Returned(iconValidator(value))
      [] name = "colour" -> Returned(colourValidator(value))

----------------------------------------------------------------------------
(* SCHEMAS.TS *)

markerSchema ==
    {[key |-> "mapName", validator |-> "string", required |-> FALSE],
     [key |-> "coordinates", validator |-> "coordinates", required |-> TRUE],
     [key |-> "icon", validator |-> "icon", required |-> FALSE],
     [key |-> "colour", validator |-> "colour", required |-> FALSE],
     [key |-> "minZoom", validator |-> "number", required |-> FALSE]}

mapSchema ==
    {[key |-> "name", validator |-> "string", required |-> FALSE],
     [key |-> "image", validator |-> "source", required |-> TRUE],
     [key |-> "height", validator |-> "number", required |-> FALSE],
     [key |-> "minZoom", validator |-> "number", required |-> FALSE],
     [key |-> "maxZoom", validator |-> "number", required |-> FALSE],
     [key |-> "defaultZoom", validator |-> "number", required |-> FALSE],
     [key |-> "zoomDelta", validator |-> "positiveNumber", required |-> FALSE],
     [key |-> "scale", validator |-> "number", required |-> FALSE],
     [key |-> "unit", validator |-> "string", required |-> FALSE]}

\* the callback of .map: value[key] === undefined && !validate.required, or
\* else the call of the validator
validated(validate, value) ==
    IF Get(value, validate.key) = Undefined /\ ~validate.required THEN Returned(TRUE)
    ELSE Validator(validate.validator, Get(value, validate.key))

\* .map calls the validator of every key before .every(Boolean) looks at the
\* results, so a validator that throws ends the call whatever the others give
schemaValidator(schema, value) ==
    IF ~isNonEmptyObject(value) THEN Returned(FALSE)
    ELSE IF \E validate \in schema : validated(validate, value) = TypeError
         THEN TypeError
    ELSE Returned(\A validate \in schema : validated(validate, value).returned)

SchemaValidator_marker(value) == schemaValidator(markerSchema, value)
SchemaValidator_map(value) == schemaValidator(mapSchema, value)

----------------------------------------------------------------------------
(* MARKER.TS *)

isProperEntry(entry) ==
    IF ~isNonEmptyObject(entry) THEN FALSE
    ELSE \A property \in ObjectValues(entry) :
            typeof(property) = "string" \/ typeof(property) = "number"

\* { ...entry, name, link }: a new object with the properties of the entry,
\* name and link set last.  The field id beside obj is no property: it stands
\* for the identity of the new object.  Every property of a proper entry is a
\* string or a number, and no validator of markerSchema throws on these.
parseMarkerFromEntry(entry, name, link, id) ==
    IF ~isProperEntry(entry) THEN Null
    ELSE IF ~SchemaValidator_marker(entry).returned THEN Null
    ELSE [obj |-> ("name" :> name) @@ ("link" :> link) @@
                  (IF IsObject(entry) THEN entry.obj ELSE <<>>),
          id |-> id]

\* markerData.map((entry) => parseMarkerFromEntry(entry, title, slug))
RECURSIVE mapParse(_, _, _, _)
mapParse(entries, name, link, id) ==
    IF entries = <<>> THEN <<>>
    ELSE LET parsed == parseMarkerFromEntry(Head(entries), name, link, id)
         IN <<parsed>> \o mapParse(Tail(entries), name, link,
                                   IF parsed = Null THEN id ELSE id + 1)

\* .filter(isNotNull)
parsedMarkers(markerData, name, link, id) ==
    SelectSeq(mapParse(markerData, name, link, id), isNotNull)

\* LEAFLET_MAP_PLUGIN_DATA.markerMap[key]: an own array, an inherited
\* Object.prototype member, or undefined
markerMapAt(mm, key) ==
    IF key \in DOMAIN mm THEN Arr(mm[key])
    ELSE IF key \in ObjectPrototypeKeys THEN [inherited |-> key]
    ELSE Undefined

\* the bucket a marker with this mapName is pushed to
bucketKey(mapName) == IF Falsy(mapName) THEN NotDefinedMap ELSE mapName.str

\* a push that puts the marker in front of its bucket
pushInFront(mm, key, marker) ==
    IF key \in DOMAIN mm THEN [mm EXCEPT ![key] = <<marker>> \o @]
    ELSE (key :> <<marker>>) @@ mm

\* LEAFLET_MAP_PLUGIN_DATA.markerMap[mapName] = [] where needed, and push
push(mm, key, marker) ==
    IF key \in DOMAIN mm THEN [mm EXCEPT ![key] = Append(@, marker)]
    ELSE (key :> <<marker>>) @@ mm

\* .forEach((marker) => { ... }): the state after the loop, or after the
\* TypeError of calling the missing push of an inherited member
RECURSIVE forEachMarker(_, _, _)
forEachMarker(mm, log, markers) ==
    IF markers = <<>> THEN [markerMap |-> mm, registered |-> log, threw |-> FALSE]
    ELSE LET marker == Head(markers)
             mapName == Get(marker, "mapName")
             key == bucketKey(mapName)
         IN IF ~Falsy(mapName) /\ "inherited" \in DOMAIN markerMapAt(mm, key)
            THEN [markerMap |-> mm, registered |-> log, threw |-> TRUE]
            ELSE forEachMarker(push(mm, key, marker), Append(log, marker),
                               Tail(markers))

\* the early return of buildMarkerData
returnsEarly(file) ==
    \/ Falsy(file.slug)
    \/ Falsy(file.frontmatter)
    \/ Falsy(Get(file.frontmatter, "title"))
    \/ Falsy(Get(file.frontmatter, "marker"))
    \/ ~IsArray(Get(file.frontmatter, "marker"))

\* the markers buildMarkerData hands to its forEach
markersOf(file, id) ==
    IF returnsEarly(file) THEN <<>>
    ELSE parsedMarkers(Get(file.frontmatter, "marker").arr,
                       Get(file.frontmatter, "title"), file.slug, id)

buildMarkerData(file) ==
    \E markers \in {markersOf(file, nextId)} :
        /\ nextId + Len(markers) <= MaxMarkers + 1
        /\ \E after \in {forEachMarker(markerMap, registered, markers)} :
              /\ markerMap' = after.markerMap
              /\ registered' = after.registered
              /\ nextId' = nextId + Len(markers)
              /\ lastCall' = [op |-> "buildMarkerData", tick |-> 1 - lastCall.tick,
                              threw |-> after.threw]
              /\ UNCHANGED <<treeIn, tree, treeAt, buildStart>>

\* an element whose data-min-zoom falls back to the map's for every falsy
\* minZoom of the marker, 0 among them
buildMarkerElementOr(marker, currentSlug, mapMinZoom) ==
    [type |-> "element",
     tagName |-> "div",
     class |-> "leaflet-marker",
     dataName |-> Get(marker, "name"),
     dataLink |-> [resolveRelative |-> <<currentSlug, Get(marker, "link")>>],
     dataCoordinates |-> Get(marker, "coordinates"),
     dataIcon |-> Get(marker, "icon"),
     dataColour |-> Get(marker, "colour"),
     dataMinZoom |-> IF Falsy(Get(marker, "minZoom")) THEN mapMinZoom
                     ELSE Get(marker, "minZoom"),
     of |-> marker.id]

buildMarkerElement(marker, currentSlug, mapMinZoom) ==
    [type |-> "element",
     tagName |-> "div",
     class |-> "leaflet-marker",
     dataName |-> Get(marker, "name"),
     dataLink |-> [resolveRelative |-> <<currentSlug, Get(marker, "link")>>],
     dataCoordinates |-> Get(marker, "coordinates"),
     dataIcon |-> Get(marker, "icon"),
     dataColour |-> Get(marker, "colour"),
     dataMinZoom |-> Nullish(Get(marker, "minZoom"), mapMinZoom),
     of |-> marker.id]

----------------------------------------------------------------------------
(* MAP.TS *)

\* the first index from i on that holds no digit
digitsEnd(s, i) ==
    IF i > Len(s) THEN i
    ELSE IF \A j \in i..Len(s) : s[j] \in Digits THEN Len(s) + 1
    ELSE CHOOSE j \in i..Len(s) : s[j] \notin Digits /\ \A t \in i..(j - 1) : s[t] \in Digits

\* the first five decimals of the digits d, in units of 1 / Unit
fractionOf(d) == integerOf(SubSeq(d \o zeros(5), 1, 5), 1, 6)

\* the first index from i on that holds no whitespace
skipWhitespace(s, i) ==
    IF i > Len(s) THEN i
    ELSE IF \A j \in i..Len(s) : s[j] \in Whitespace THEN Len(s) + 1
    ELSE CHOOSE j \in i..Len(s) :
             s[j] \notin Whitespace /\ \A t \in i..(j - 1) : s[t] \in Whitespace

\* the index behind the exponent part that starts at d: e or E, a sign if
\* there is one, and at least one digit; d if no exponent part starts there
exponentEnd(s, d) ==
    LET a == IF d + 1 <= Len(s) /\ s[d + 1] \in {"+", "-"} THEN d + 2 ELSE d + 1
    IN IF d <= Len(s) /\ s[d] \in {"e", "E"} /\ digitsEnd(s, a) > a
       THEN digitsEnd(s, a)
       ELSE d

\* the exponent of the digits written without zeros in front, and most where
\* it is more than most
exponentValue(digits, most) ==
    IF natLess(digitValues(digitsOf(most)), digitValues(digits)) THEN most
    ELSE integerOf(digits, 1, Len(digits) + 1)

\* the exponent whose digits are s[a..e-1]
exponentDigits(s, a, e, most) ==
    exponentValue(SubSeq(s, a + zerosInFront(SubSeq(s, a, e - 1)), e - 1), most)

\* the exponent written in s[d..e-1], 0 for none.  The digits before it are
\* fewer than Len(s) and move the point by less than that, so that an exponent
\* beyond Len(s) + 400 leaves the number above 10^309 or below 10^-324 however
\* large it is, and counts as Len(s) + 400.
exponentOf(s, d, e) ==
    IF e = d THEN 0
    ELSE IF s[d + 1] = "-" THEN 0 - exponentDigits(s, d + 2, e, Len(s) + 400)
    ELSE IF s[d + 1] = "+" THEN exponentDigits(s, d + 2, e, Len(s) + 400)
    ELSE exponentDigits(s, d + 1, e, Len(s) + 400)

\* the number of the digits whole before the point and the digits decimals
\* behind it, which do not end with 0
decimalNumber(sign, whole, decimals) ==
    IF Len(decimals) <= 5
    THEN Num(sign * (integerOf(whole, 1, Len(whole) + 1) * Unit + fractionOf(decimals)))
    ELSE [num |-> sign * (integerOf(whole, 1, Len(whole) + 1) * Unit
                              + fractionOf(decimals)),
          below |-> SubSeq(decimals, 6, Len(decimals)),
          neg |-> sign < 0]

withoutZerosBehind(d) == SubSeq(d, 1, Len(d) - zerosBehind(d))

\* the number sign * 0.d * 10^p for digits d that neither begin nor end with 0
written(sign, d, p) ==
    IF p > 5 \/ (p = 5 /\ ~fractionLess(d, <<"2", "1", "4", "7", "4">>))
    THEN [big |-> d, point |-> p, neg |-> sign < 0]
    ELSE IF p <= 0 THEN decimalNumber(sign, <<>>, zeros(0 - p) \o d)
    ELSE IF p <= Len(d)
         THEN decimalNumber(sign, SubSeq(d, 1, p), SubSeq(d, p + 1, Len(d)))
    ELSE decimalNumber(sign, d \o zeros(p - Len(d)), <<>>)

\* the number of the digits y, of which the last are decimals
writtenOf(sign, y, decimals) ==
    written(sign,
            withoutZerosBehind(
                digitCharsOf(SubSeq(y, firstDifference(y, noughts(Len(y)), 1), Len(y)))),
            (Len(y) - (firstDifference(y, noughts(Len(y)), 1) - 1)) - decimals)

\* the number of the double x: 0, Infinity beyond the largest double, and
\* else its shortest numeral
numberOfDouble(sign, x) ==
    IF \A i \in 1..MantissaBits : x.bits[i] = 0 THEN Num(0)
    ELSE IF x.k > MaxExponent THEN Infinity(sign)
    ELSE writtenOf(sign, shortestDigits(x), IF x.k < 2 THEN 2 - x.k ELSE 0)

\* the number sign * 0.d * 10^p for digits d that neither begin nor end with
\* 0: the double nearest to it.  From 10^309 on that is Infinity and below
\* 10^-324 it is 0; a numeral of at most 15 digits within the normal doubles
\* is the shortest numeral of its double, and stands as it is written.
decimalFrom(sign, d, p) ==
    IF d = <<>> THEN Num(0)
    ELSE IF p > 309 THEN Infinity(sign)
    ELSE IF p < 0 - 323 THEN Num(0)
    ELSE IF Len(d) <= 15 /\ p >= 0 - 300 /\ p <= 300 THEN written(sign, d, p)
    ELSE numberOfDouble(sign, nearestDouble(d, p))

\* the number sign * 0.digits * 10^point
decimalOf(sign, digits, point) ==
    decimalFrom(sign,
                withoutZerosBehind(SubSeq(digits, zerosInFront(digits) + 1, Len(digits))),
                point - zerosInFront(digits))

\* parseFloat from the first digit position b on, c being the end of the
\* integer digits and d the end of the fraction digits (d = c without a dot,
\* d = c + 1 for a dot without digits); an exponent part may follow
parseFloatDigits(s, sign, b, c, d) ==
    IF c = b /\ (d = c \/ d = c + 1) THEN NaN
    ELSE decimalOf(sign,
                   SubSeq(s, b, c - 1)
                       \o (IF d > c THEN SubSeq(s, c + 1, d - 1) ELSE <<>>),
                   (c - b) + exponentOf(s, d, exponentEnd(s, d)))

parseFloatFraction(s, sign, b, c) ==
    parseFloatDigits(s, sign, b, c,
                     IF c <= Len(s) /\ s[c] = "." THEN digitsEnd(s, c + 1) ELSE c)

InfinityWord == <<"I", "n", "f", "i", "n", "i", "t", "y">>

\* behind the sign: Infinity, or a decimal numeral
parseFloatUnsigned(s, sign, b) ==
    IF b + Len(InfinityWord) - 1 <= Len(s)
       /\ SubSeq(s, b, b + Len(InfinityWord) - 1) = InfinityWord
    THEN Infinity(sign)
    ELSE parseFloatFraction(s, sign, b, digitsEnd(s, b))

parseFloatSigned(s, a) ==
    IF a <= Len(s) /\ s[a] = "-" THEN parseFloatUnsigned(s, 0 - 1, a + 1)
    ELSE IF a <= Len(s) /\ s[a] = "+" THEN parseFloatUnsigned(s, 1, a + 1)
    ELSE parseFloatUnsigned(s, 1, a)

\* parseFloat of a string: leading whitespace, a sign, Infinity or digits with
\* a decimal fraction and an exponent; whatever follows is ignored
parseFloatString(s) == parseFloatSigned(s, skipWhitespace(s, 1))

\* parseFloat((value ?? "").toString()): the number, or the TypeError of
\* toString
parseFloatOf(value) ==
    IF toStringOf(Nullish(value, Str(<<>>))) = TypeError THEN TypeError
    ELSE parseFloatString(toStringOf(Nullish(value, Str(<<>>))).str)

LeafletMapType == <<"l", "e", "a", "f", "l", "e", "t", "-", "m", "a", "p">>

\* the callback of entry.views.map in parseMapFromNode; every property of a
\* proper entry is a string or a number, whose toString does not throw
parseView(view) ==
    IF ~isProperEntry(view) THEN Null
    ELSE IF Falsy(Get(view, "type")) \/ Get(view, "type") # Str(LeafletMapType) THEN Null
    ELSE LET object ==
                 Obj([name |-> Get(view, "mapName"),
                      image |-> Get(view, "image"),
                      height |-> Get(view, "height"),
                      minZoom |-> Get(view, "minZoom"),
                      maxZoom |-> Get(view, "maxZoom"),
                      defaultZoom |-> Get(view, "defaultZoom"),
                      zoomDelta |-> Get(view, "zoomDelta"),
                      scale |-> parseFloatOf(Get(view, "scale")),
                      unit |-> Get(view, "unit")])
         IN IF ~SchemaValidator_map(object).returned THEN Null ELSE object

\* the error yaml's parse throws for a text that is no YAML
YAMLParseError == [threw |-> "YAMLParseError"]

\* node.parsed stands for parse(source(node)): the YAML value of the block's
\* text, or YAMLParseError where parse throws.  The error is not caught, and
\* is what the call ends with.
parseMapFromNode(node) ==
    LET entry == node.parsed
    IN IF entry = YAMLParseError THEN YAMLParseError
       ELSE IF ~isNonEmptyObject(entry) \/ ~IsArray(Get(entry, "views")) THEN Undefined
       ELSE LET views == Get(entry, "views").arr
                maps == SelectSeq([i \in 1..Len(views) |-> parseView(views[i])],
                                  isNotNull)
            IN IF maps = <<>> THEN Undefined ELSE maps[1]

\* [...undefinedMarkers, ...definedMarkers]; spreading an inherited
\* Object.prototype member is a TypeError
\* a lookup that lists the markers of the named bucket first
lookupMarkersDefinedFirst(mm, name) ==
    LET undefinedMarkers == Nullish(markerMapAt(mm, NotDefinedMap), Arr(<<>>))
        definedMarkers ==
            IF ~Falsy(name) THEN Nullish(markerMapAt(mm, name.str), Arr(<<>>))
            ELSE Arr(<<>>)
    IN IF IsArray(definedMarkers)
       THEN [markers |-> definedMarkers.arr \o undefinedMarkers.arr, threw |-> FALSE]
       ELSE [markers |-> <<>>, threw |-> TRUE]

lookupMarkers(mm, name) ==
    LET undefinedMarkers == Nullish(markerMapAt(mm, NotDefinedMap), Arr(<<>>))
        definedMarkers ==
            IF ~Falsy(name) THEN Nullish(markerMapAt(mm, name.str), Arr(<<>>))
            ELSE Arr(<<>>)
    IN IF IsArray(definedMarkers)
       THEN [markers |-> undefinedMarkers.arr \o definedMarkers.arr, threw |-> FALSE]
       ELSE [markers |-> <<>>, threw |-> TRUE]

\* the element buildMapData returns; the properties data-src and data-link
\* hold the call of the link helper with its arguments
mapElement(ctx, mapData, currentSlug, markers, minZoom, maxZoom) ==
    [type |-> "element",
     tagName |-> "div",
     children |-> <<
       [type |-> "element",
        tagName |-> "div",
        class |-> "leaflet-map",
        dataSrc |->
            [transformLink |->
                <<currentSlug, toStringOf(Get(mapData, "image")),
                  [strategy |-> "shortest", allSlugs |-> ctx.allSlugs]>>],
        dataHeight |-> Nullish(Get(mapData, "height"), C_map_default.height),
        dataMinZoom |-> minZoom,
        dataMaxZoom |-> maxZoom,
        dataDefaultZoom |->
            clamp(Nullish(Get(mapData, "defaultZoom"), minZoom), minZoom, maxZoom),
        dataZoomDelta |-> Nullish(Get(mapData, "zoomDelta"), C_map_default.zoomDelta),
        dataScale |-> Nullish(Get(mapData, "scale"), C_map_default.scale),
        dataUnit |-> Nullish(Get(mapData, "unit"), C_map_default.unit),
        children |->
            [i \in 1..Len(markers) |->
                buildMarkerElement(markers[i], currentSlug, minZoom)]]>>]

\* buildMapData once the declaration is parsed, the markers are looked up
\* and minZoom is resolved
buildMapDataWith(ctx, mapData, currentSlug, found, minZoom) ==
    IF mapData = YAMLParseError THEN [element |-> Undefined, threw |-> TRUE]
    ELSE IF mapData = Undefined THEN [element |-> Undefined, threw |-> FALSE]
    ELSE IF Falsy(currentSlug) THEN [element |-> Undefined, threw |-> TRUE]
    ELSE IF found.threw THEN [element |-> Undefined, threw |-> TRUE]
    ELSE [threw |-> FALSE,
          element |->
              mapElement(ctx, mapData, currentSlug, found.markers, minZoom,
                         MathMax(Nullish(Get(mapData, "maxZoom"),
                                         C_map_default.maxZoom),
                                 minZoom))]

buildMapDataOf(ctx, mm, currentSlug, mapData) ==
    buildMapDataWith(ctx, mapData, currentSlug,
                     lookupMarkers(mm, Get(mapData, "name")),
                     Nullish(Get(mapData, "minZoom"), C_map_default.minZoom))

\* the result of buildMapData: an element, undefined, or an exception; mm is
\* LEAFLET_MAP_PLUGIN_DATA.markerMap at the time of the call
buildMapData(ctx, mm, file, node) ==
    buildMapDataOf(ctx, mm, file.slug, parseMapFromNode(node))

\* visit(tree, { tagName: "code" }, ...) over the children from index i on:
\* the children after the visit, or as they are when an exception ends it
RECURSIVE visitFrom(_, _, _, _, _)
visitFrom(ctx, mm, file, children, i) ==
    IF i > Len(children) THEN [children |-> children, threw |-> FALSE]
    ELSE LET node == children[i]
         IN IF node.tagName # "code" \/ node.dataLanguage # "base"
            THEN visitFrom(ctx, mm, file, children, i + 1)
            ELSE LET built == buildMapData(ctx, mm, file, node)
                 IN IF built.threw THEN [children |-> children, threw |-> TRUE]
                    ELSE IF built.element = Undefined
                         THEN visitFrom(ctx, mm, file, children, i + 1)
                    ELSE visitFrom(ctx, mm, file,
                                   [children EXCEPT ![i] = built.element], i + 1)

transformMapElement(ctx, file, children) ==
    \E visited \in {visitFrom(ctx, markerMap, file, children, 1)} :
        /\ treeIn' = children
        /\ tree' = visited.children
        /\ treeAt' = Len(registered)
        /\ lastCall' = [op |-> "transformMapElement", tick |-> 1 - lastCall.tick,
                        threw |-> visited.threw]
        /\ UNCHANGED <<markerMap, nextId, registered, buildStart>>

----------------------------------------------------------------------------
(* CORE.TS *)

\* the host starts a build and takes the plugins of LeafletMap anew; the
\* module constant LEAFLET_MAP_PLUGIN_DATA is assigned nowhere, so the registry
\* stays as the build before left it
LeafletMap ==
    /\ buildStart' = Len(registered)
    /\ lastCall' = [op |-> "LeafletMap", tick |-> 1 - lastCall.tick, threw |-> FALSE]
    /\ UNCHANGED <<markerMap, nextId, registered, treeIn, tree, treeAt>>

----------------------------------------------------------------------------
(* Client: UTIL.TS *)

\* A length is held as it is: [whole |-> w, roots |-> c] is w plus the sum of
\* c[r] times the square root of r over the radicands r of c, each of them
\* above 1 and free of squares, each c[r] other than 0.
Whole(w) == [whole |-> w, roots |-> <<>>]

coefficient(length, r) == IF r \in DOMAIN length.roots THEN length.roots[r] ELSE 0

\* a + b
plus(a, b) ==
    LET radicands == {r \in DOMAIN a.roots \cup DOMAIN b.roots :
                         coefficient(a, r) + coefficient(b, r) # 0}
    IN [whole |-> a.whole + b.whole,
        roots |-> IF radicands = {} THEN <<>>
                  ELSE [r \in radicands |-> coefficient(a, r) + coefficient(b, r)]]

\* a * k for a whole number k
times(a, k) ==
    [whole |-> a.whole * k,
     roots |-> IF k = 0 THEN <<>> ELSE [r \in DOMAIN a.roots |-> a.roots[r] * k]]

\* the largest number whose square divides n
squarePart(n) ==
    CHOOSE r \in 1..n :
        /\ n % (r * r) = 0
        /\ \A q \in (r + 1)..n : q * q <= n => n % (q * q) # 0

\* Math.sqrt of a whole number n: the whole root of a square, and else the
\* root of what is left of n without its square part, times that part
Sqrt(n) ==
    IF n = 0 THEN Whole(0)
    ELSE IF n = squarePart(n) * squarePart(n) THEN Whole(squarePart(n))
    ELSE [whole |-> 0,
          roots |-> ((n \div (squarePart(n) * squarePart(n))) :> squarePart(n))]

square(value) == value * value

latLngDistance(a, b) == Sqrt(square(a.lat - b.lat) + square(a.lng - b.lng))

\* array.at(-k): the k-th element from the end, or undefined
atFromEnd(array, k) ==
    IF Len(array) >= k THEN array[Len(array) - k + 1] ELSE Undefined

----------------------------------------------------------------------------
(* Client: CONTROL.TS *)

\* ControlContainer.controls after onAdd: registerSubControl(PanControl),
\* registerSubControl(MeasureControl); indices count from 0
controls == <<"PanControl", "MeasureControl">>
controlsAt(index) == controls[index + 1]
ControlIndices == {i - 1 : i \in DOMAIN controls}

\* the client state as one value, so that the methods compose
Tool ==
    [isSelected |-> isSelected, activeIndex |-> activeIndex, cursor |-> cursor,
     moveListeners |-> moveListeners, state |-> state, pathItems |-> pathItems,
     distance |-> distance, pathLine |-> pathLine, previewLine |-> previewLine,
     previewTooltip |-> previewTooltip, pointLayer |-> pointLayer,
     lastElement |-> lastElement, options |-> options]

\* a cleanLastElement that leaves the click listener on the circle marker
cleanLastElementKeepsListener(t) == t

\* MeasureControl.cleanLastElement
cleanLastElement(t) ==
    IF t.lastElement = 0 THEN t
    ELSE [t EXCEPT !.pointLayer[t.lastElement].click = FALSE]

\* MeasureControl.getCircleMarker followed by the assignment to lastElement
getCircleMarker(t, coordinate) ==
    [t EXCEPT !.pointLayer = Append(@, [latlng |-> coordinate, click |-> TRUE,
                                        tooltip |-> FALSE]),
              !.lastElement = Len(t.pointLayer) + 1]

\* the segment's length without the map's scale
addedDistanceUnscaled(t, lastCoordinate, secondLastCoordinate) ==
    latLngDistance(lastCoordinate, secondLastCoordinate)

\* the distance renderPath adds for the segment it commits
addedDistance(t, lastCoordinate, secondLastCoordinate) ==
    times(latLngDistance(lastCoordinate, secondLastCoordinate), t.options.scale)

\* MeasureControl.renderPath
renderPath(t) ==
    LET cleaned == [cleanLastElement(t) EXCEPT !.pathLine = t.pathItems]
        lastCoordinate == atFromEnd(t.pathItems, 1)
        secondLastCoordinate == atFromEnd(t.pathItems, 2)
        marked == getCircleMarker(cleaned, lastCoordinate)
    IN IF lastCoordinate = Undefined THEN cleaned
       ELSE IF secondLastCoordinate = Undefined THEN marked
       ELSE [marked EXCEPT !.distance =
                 plus(@, addedDistance(t, lastCoordinate, secondLastCoordinate))]

\* a preview that adds its segment to the accumulated distance
renderPreviewAccumulating(t, mouseCoordinate) ==
    LET lastCoordinate == atFromEnd(t.pathItems, 1)
    IN IF t.state # "Measuring" THEN t
       ELSE IF lastCoordinate = Undefined THEN t
       ELSE [t EXCEPT !.previewLine = <<lastCoordinate, mouseCoordinate>>,
                      !.previewTooltip.latlng = mouseCoordinate,
                      !.previewTooltip.content =
                          plus(t.distance,
                               times(latLngDistance(lastCoordinate, mouseCoordinate),
                                     t.options.scale)),
                      !.distance =
                          plus(t.distance,
                               times(latLngDistance(lastCoordinate, mouseCoordinate),
                                     t.options.scale))]

\* MeasureControl.renderPreview
renderPreview(t, mouseCoordinate) ==
    LET lastCoordinate == atFromEnd(t.pathItems, 1)
    IN IF t.state # "Measuring" THEN t
       ELSE IF lastCoordinate = Undefined THEN t
       ELSE [t EXCEPT !.previewLine = <<lastCoordinate, mouseCoordinate>>,
                      !.previewTooltip.latlng = mouseCoordinate,
                      !.previewTooltip.content =
                          plus(t.distance,
                               times(latLngDistance(lastCoordinate, mouseCoordinate),
                                     t.options.scale))]

\* a reset that leaves the preview line drawn
resetPathKeepPreview(t) ==
    [cleanLastElement(t) EXCEPT !.pathItems = <<>>,
                                !.distance = Whole(0),
                                !.pointLayer = <<>>,
                                !.lastElement = 0,
                                !.pathLine = <<>>,
                                !.previewTooltip.shown = FALSE]

\* MeasureControl.resetPath; clearLayers takes every circle marker off the
\* map, lastElement among them
resetPath(t) ==
    [cleanLastElement(t) EXCEPT !.pathItems = <<>>,
                                !.distance = Whole(0),
                                !.pointLayer = <<>>,
                                !.lastElement = 0,
                                !.pathLine = <<>>,
                                !.previewLine = <<>>,
                                !.previewTooltip.shown = FALSE]

\* MeasureControl.onSelected
onSelected(t, control) ==
    IF control # "MeasureControl" THEN t
    ELSE [t EXCEPT !.cursor = "crosshair", !.moveListeners = @ + 1]

\* MeasureControl.onDeselected
onDeselected(t, control) ==
    IF control # "MeasureControl" THEN t
    ELSE [resetPath([t EXCEPT !.cursor = "", !.moveListeners = 0])
             EXCEPT !.state = "Ready"]

\* a selection that never deselects
setSelectedOnly(t, control, selected) ==
    IF t.isSelected[control] = selected THEN t
    ELSE IF selected
         THEN onSelected([t EXCEPT !.isSelected[control] = TRUE], control)
    ELSE t

\* SubControl.setSelected
setSelected(t, control, selected) ==
    IF t.isSelected[control] = selected THEN t
    ELSE IF selected
         THEN onSelected([t EXCEPT !.isSelected[control] = TRUE], control)
    ELSE onDeselected([t EXCEPT !.isSelected[control] = FALSE], control)

\* a callback that selects the new tool before it deselects the active one
onSelectCallbackSelectFirst(t, controlIndex) ==
    LET selected == setSelected(t, controlsAt(controlIndex), TRUE)
        deselected == setSelected(selected, controlsAt(t.activeIndex), FALSE)
    IN [deselected EXCEPT !.activeIndex = controlIndex]

\* the onSelectCallback of registerSubControl
onSelectCallback(t, controlIndex) ==
    LET deselected == setSelected(t, controlsAt(t.activeIndex), FALSE)
        selected == setSelected(deselected, controlsAt(controlIndex), TRUE)
    IN [selected EXCEPT !.activeIndex = controlIndex]

\* a click that puts its coordinate in front of the path
pushLatLngFront(t, latlng) ==
    [t EXCEPT !.state = "Measuring", !.pathItems = <<latlng>> \o @]

\* the Ready/Measuring case of mapClicked up to pathItems.push(event.latlng)
pushLatLng(t, latlng) ==
    [t EXCEPT !.state = "Measuring", !.pathItems = Append(@, latlng)]

\* MeasureControl.mapClicked
measureMapClicked(t, latlng) ==
    CASE t.state \in {"Ready", "Measuring"} ->
            LET pushed == pushLatLng(t, latlng)
                rendered == renderPath(pushed)
            IN renderPreview([rendered EXCEPT !.previewTooltip.shown = TRUE], latlng)
      [] t.state = "Finishing" ->
            [t EXCEPT !.state = "Done",
                      !.pointLayer =
                          IF t.lastElement = 0 THEN @
                          ELSE [@ EXCEPT ![t.lastElement].tooltip = TRUE],
                      !.previewTooltip.shown = FALSE]
      [] t.state = "Done" -> [resetPath(t) EXCEPT !.state = "Ready"]

\* SubControl.mapClicked of each control
mapClicked(t, control, latlng) ==
    IF control = "MeasureControl" THEN measureMapClicked(t, latlng) ELSE t

\* a listener that hands the click to every control, selected or not
RECURSIVE dispatchClickToEvery(_, _, _)
dispatchClickToEvery(t, index, latlng) ==
    IF index \notin ControlIndices THEN t
    ELSE dispatchClickToEvery(mapClicked(t, controlsAt(index), latlng), index + 1, latlng)

\* the map's "click" listener of ControlContainer.onAdd
RECURSIVE dispatchClick(_, _, _)
dispatchClick(t, index, latlng) ==
    IF index \notin ControlIndices THEN t
    ELSE dispatchClick(IF t.isSelected[controlsAt(index)]
                       THEN mapClicked(t, controlsAt(index), latlng) ELSE t,
                       index + 1, latlng)

\* a tail click that ends the measurement at once
circleClickedDone(t) == [t EXCEPT !.state = "Done"]

\* the "click" listener getCircleMarker puts on a circle marker
circleClicked(t) == [t EXCEPT !.state = "Finishing"]

Commit(t) ==
    /\ isSelected' = t.isSelected
    /\ activeIndex' = t.activeIndex
    /\ cursor' = t.cursor
    /\ moveListeners' = t.moveListeners
    /\ state' = t.state
    /\ pathItems' = t.pathItems
    /\ distance' = t.distance
    /\ pathLine' = t.pathLine
    /\ previewLine' = t.previewLine
    /\ previewTooltip' = t.previewTooltip
    /\ pointLayer' = t.pointLayer
    /\ lastElement' = t.lastElement
    /\ options' = t.options

----------------------------------------------------------------------------
(* Inputs of the build *)

NameLower == <<"m">>
NameUpper == <<"M">>
NamePadded == <<" ", "m">>
NameConstructor == <<"c", "o", "n", "s", "t", "r", "u", "c", "t", "o", "r">>

ValidCoordinates == Str(<<"1", "0", ",", " ", "5">>)
InvalidCoordinates == Str(<<"1", "0", ",">>)
SomeIcon == Str(<<"m", "d", "i", ":", "a">>)
SomeImage == Str(<<"a", ".", "p", "n", "g">>)
SomeTitle == Str(<<"T">>)
SomeSlug == Str(<<"s">>)

\* a marker declaration naming a map
markerFor(mapName) ==
    Obj(("mapName" :> Str(mapName)) @@ ("coordinates" :> ValidCoordinates) @@
        ("icon" :> SomeIcon))

MarkerWithoutMap == Obj(("coordinates" :> ValidCoordinates) @@ ("icon" :> SomeIcon))
MarkerWithBadCoordinates ==
    Obj(("mapName" :> Str(NameLower)) @@ ("coordinates" :> InvalidCoordinates) @@
        ("icon" :> SomeIcon))

\* a marker declaration with a property id of its own
MarkerWithId ==
    Obj(("mapName" :> Str(NameLower)) @@ ("coordinates" :> ValidCoordinates) @@
        ("icon" :> SomeIcon) @@ ("id" :> Str(<<"x">>)))

EntryInputs ==
    {markerFor(NameLower), markerFor(NameUpper), markerFor(NotDefinedMap),
     markerFor(NameConstructor), MarkerWithoutMap, MarkerWithBadCoordinates,
     MarkerWithId}

\* the lists given as frontmatter.marker
ListInputs ==
    {<<>>,
     <<markerFor(NameLower)>>, <<markerFor(NameUpper)>>, <<MarkerWithoutMap>>,
     <<markerFor(NotDefinedMap)>>, <<markerFor(NameConstructor)>>,
     <<MarkerWithBadCoordinates>>, <<Null>>,
     <<markerFor(NameLower), markerFor(NameLower)>>,
     <<markerFor(NameLower), markerFor(NameUpper)>>,
     <<markerFor(NameLower), MarkerWithoutMap>>,
     <<markerFor(NameLower), MarkerWithId>>,
     <<MarkerWithoutMap, markerFor(NameLower)>>,
     <<MarkerWithBadCoordinates, markerFor(NameLower)>>,
     <<markerFor(NameUpper), MarkerWithBadCoordinates>>,
     <<MarkerWithBadCoordinates, Null>>,
     <<markerFor(NameConstructor), markerFor(NameLower)>>,
     <<markerFor(NameLower), markerFor(NameConstructor)>>,
     <<markerFor(NameLower), MarkerWithBadCoordinates, MarkerWithoutMap>>}

\* frontmatter.marker: absent, one object, or a list
MarkerDataInputs ==
    {Undefined} \cup EntryInputs \cup {Arr(list) : list \in ListInputs}

fileWith(markerData) ==
    [slug |-> SomeSlug,
     frontmatter |-> Obj(IF markerData = Undefined THEN ("title" :> SomeTitle)
                         ELSE ("title" :> SomeTitle) @@ ("marker" :> markerData))]

FileInputs ==
    {fileWith(markerData) : markerData \in MarkerDataInputs}
    \cup {[slug |-> Undefined,
           frontmatter |-> Obj(("title" :> SomeTitle) @@
                               ("marker" :> Arr(<<markerFor(NameLower)>>)))],
          [slug |-> SomeSlug,
           frontmatter |-> Obj("marker" :> Arr(<<markerFor(NameLower)>>))],
          [slug |-> SomeSlug, frontmatter |-> Undefined]}

\* a map declaration (one view of a base block)
viewBase ==
    ("type" :> Str(LeafletMapType)) @@ ("image" :> SomeImage) @@ ("scale" :> Num(Unit))

viewFor(mapName) == Obj(("mapName" :> Str(mapName)) @@ viewBase)

ViewWithoutName == Obj(viewBase)
ViewWithoutImage ==
    Obj(("type" :> Str(LeafletMapType)) @@ ("mapName" :> Str(NameLower)) @@
        ("scale" :> Num(Unit)))

codeNode(views) ==
    [tagName |-> "code", dataLanguage |-> "base", parsed |-> Obj("views" :> Arr(views))]

NodeInputs ==
    {codeNode(<<viewFor(NameLower)>>),
     codeNode(<<viewFor(NamePadded)>>), codeNode(<<viewFor(NotDefinedMap)>>),
     codeNode(<<viewFor(NameConstructor)>>), codeNode(<<ViewWithoutName>>),
     codeNode(<<ViewWithoutImage>>),
     codeNode(<<ViewWithoutImage, viewFor(NameLower)>>),
     [tagName |-> "code", dataLanguage |-> "js", parsed |-> Null]}

TreeInputs == {<<node>> : node \in NodeInputs}

\* the BuildCtx the host hands to the plugin: the slugs of the site's documents
BuildContext == [allSlugs |-> <<Str(<<"s">>), Str(<<"a">>), Str(<<"b">>)>>]

HtmlFile == [slug |-> SomeSlug, frontmatter |-> Obj("title" :> SomeTitle)]
HtmlFileWithoutSlug == [slug |-> Undefined, frontmatter |-> Obj("title" :> SomeTitle)]

\* the documents handed to transformMapElement: a file and its tree
DocumentInputs ==
    {[file |-> HtmlFile, children |-> children] : children \in TreeInputs}
    \cup {[file |-> HtmlFileWithoutSlug, children |-> <<codeNode(<<viewFor(NameLower)>>)>>]}

----------------------------------------------------------------------------
(* Inputs of the client *)

LatLngInputs ==
    {[lat |-> 0, lng |-> 0], [lat |-> 3, lng |-> 4],
     [lat |-> 3, lng |-> 0], [lat |-> 1, lng |-> 1]}

ScaleInputs == {1, 2}

NoLatLng == [lat |-> 0, lng |-> 0]

----------------------------------------------------------------------------
(* Client events *)

\* a click on a tool button: SubControl.onAdd's listener
ButtonClicked(index) ==
    /\ Commit(onSelectCallback(Tool, index))
    /\ event' = [type |-> "select", latlng |-> NoLatLng, index |-> index]
    /\ UNCHANGED <<buildVars, validatorVars, navVars>>

\* a click on the map
MapClicked(latlng) ==
    /\ \/ ~isSelected["MeasureControl"]
       \/ state \notin {"Ready", "Measuring"}
       \/ Len(pathItems) < MaxPath
    /\ Commit(dispatchClick(Tool, 0, latlng))
    /\ event' = [type |-> "click", latlng |-> latlng, index |-> 0]
    /\ UNCHANGED <<buildVars, validatorVars, navVars>>

\* a click on the i-th circle marker of the point layer
CircleClicked(i) ==
    /\ i \in DOMAIN pointLayer
    /\ Commit(IF pointLayer[i].click THEN circleClicked(Tool) ELSE Tool)
    /\ event' = [type |-> "circleclick", latlng |-> pointLayer[i].latlng, index |-> i]
    /\ UNCHANGED <<buildVars, validatorVars, navVars>>

\* every "mousemove" listener of the map runs
RECURSIVE fireMouseMove(_, _, _)
fireMouseMove(t, n, latlng) ==
    IF n = 0 THEN t ELSE fireMouseMove(renderPreview(t, latlng), n - 1, latlng)

MouseMoved(latlng) ==
    /\ Commit(fireMouseMove(Tool, moveListeners, latlng))
    /\ event' = [type |-> "mousemove", latlng |-> latlng, index |-> 0]
    /\ UNCHANGED <<buildVars, validatorVars, navVars>>

----------------------------------------------------------------------------
(* Inputs of the validators *)

\* an object with the properties of f that are not undefined
objectOf(f) == Obj([key \in {k \in DOMAIN f : f[k] # Undefined} |-> f[key]])

CoordinatesInputs ==
    {ValidCoordinates, InvalidCoordinates,
     Str(<<"a", "b", "c", ",", " ", "5">>), Str(<<"1", "0", ",", " ", "-", "5">>), Str(<<"1", "0", ",", "5">>), Str(<<"x", "1", "0", ",", " ", "5", "y">>), Str(<<"1", " ", ",", " ", "2">>),
     Str(<<"1", "\t", ",", "\n", "2">>), Str(<<"1", "U+00A0", ",", "2">>),
     Num(5 * Unit), Undefined}

\* the colour names of the README's table of predefined colours
PaletteNames ==
    {<<"g", "r", "e", "e", "n">>,
     <<"l", "i", "m", "e">>,
     <<"y", "e", "l", "l", "o", "w">>,
     <<"p", "i", "n", "k">>,
     <<"b", "l", "u", "e">>,
     <<"l", "i", "g", "h", "t", "b", "l", "u", "e">>,
     <<"b", "r", "o", "w", "n">>,
     <<"o", "r", "a", "n", "g", "e">>,
     <<"r", "e", "d">>,
     <<"p", "u", "r", "p", "l", "e">>}

HexColourInputs ==
    {Str(<<"f", "4", "4">>), Str(<<"f", "f", "4", "4", "4", "4">>), Str(<<"f", "f", "4", "5">>), Str(<<"f", "f", "4", "5", "4", "6", "a", "a">>), Str(<<"F", "4", "A">>),
     Str(<<"x", "y", "z">>), Str(<<"h", "f", "4", "4">>)}

ColourInputs ==
    {Undefined, Num(100 * Unit)} \cup HexColourInputs
    \cup {Str(name) : name \in PaletteNames}

IconInputs == {Undefined, SomeIcon, Str(<<"1">>)}

markerValue(coordinates, colour, icon) ==
    objectOf(("coordinates" :> coordinates) @@ ("colour" :> colour) @@ ("icon" :> icon))

\* an object whose own property toString is no function
ToStringIsNumber == Obj("toString" :> Num(Unit))

\* values that are no plain objects
NonObjectInputs ==
    {Null, Undefined, NaN, Num(0), Num(Unit), Str(<<>>), Str(<<"a">>),
     Arr(<<>>), Arr(<<ValidCoordinates>>)}

MarkerValueInputs ==
    NonObjectInputs
    \cup {markerValue(coordinates, Undefined, icon) :
             coordinates \in CoordinatesInputs, icon \in IconInputs}
    \cup {markerValue(coordinates, colour, SomeIcon) :
             coordinates \in {ValidCoordinates, InvalidCoordinates},
             colour \in ColourInputs}
    \cup {markerValue(ValidCoordinates, colour, icon) :
             colour \in HexColourInputs, icon \in IconInputs}
    \cup {objectOf(("coordinates" :> ValidCoordinates) @@ ("mapName" :> mapName)
                   @@ ("minZoom" :> minZoom)) :
             mapName \in {Undefined, Str(NameLower), Num(Unit), Null},
             minZoom \in {Undefined, Num(Unit), Str(<<"1">>), NaN}}

MapValueInputs ==
    NonObjectInputs
    \cup {objectOf(("image" :> image) @@ ("scale" :> scale) @@ ("zoomDelta" :> zoomDelta)
                   @@ ("name" :> name)) :
             image \in {Undefined, SomeImage, Str(<<>>), Null, Num(Unit),
                        Arr(<<>>), Arr(<<Arr(<<SomeImage>>)>>), Arr(<<Arr(<<Str(<<>>)>>)>>),
                        Arr(<<Null, Null>>), Obj("a" :> Num(Unit)), ToStringIsNumber,
                        Arr(<<ToStringIsNumber>>)},
             scale \in {Undefined, Num(Unit), NaN, Str(<<"1">>)},
             zoomDelta \in {Undefined, Num(0), Num(Unit \div 2), Num(0 - Unit)},
             name \in {Undefined, Str(NameLower), Num(Unit)}}

----------------------------------------------------------------------------
(* Inputs of the map resolution *)

MarkerWithoutIcon ==
    Obj(("mapName" :> Str(NameLower)) @@ ("coordinates" :> ValidCoordinates))
MarkerWithBadIcon ==
    Obj(("mapName" :> Str(NameLower)) @@ ("coordinates" :> ValidCoordinates) @@
        ("icon" :> Str(<<"1">>)))

ResolveFileInputs ==
    {fileWith(Arr(<<MarkerWithoutIcon>>)), fileWith(Arr(<<MarkerWithBadIcon>>))}

MinZoomInputs == {Undefined, Num(0), Num(2 * Unit), Num(0 - Unit)}
MaxZoomInputs == {Undefined, Num(0), Num(Unit), Num(3 * Unit)}
DefaultZoomInputs ==
    {Undefined, Num((3 * Unit) \div 2), Num(5 * Unit), Num(0 - 3 * Unit)}

\* a view of map "m" with these zoom declarations
zoomView(minZoom, maxZoom, defaultZoom) ==
    objectOf(viewFor(NameLower).obj @@ ("minZoom" :> minZoom) @@
             ("maxZoom" :> maxZoom) @@ ("defaultZoom" :> defaultZoom))

\* a view that gives nothing but the type and the image
ViewTypeAndImage == Obj(("type" :> Str(LeafletMapType)) @@ ("image" :> SomeImage))

\* a view that gives every field
ViewWithEveryField ==
    Obj(viewFor(NameLower).obj @@ ("height" :> Num(400 * Unit)) @@
        ("minZoom" :> Num(Unit)) @@ ("maxZoom" :> Num(4 * Unit)) @@
        ("defaultZoom" :> Num(2 * Unit)) @@ ("zoomDelta" :> Num(Unit \div 4)) @@
        ("unit" :> Str(<<"k", "m">>)))

\* a view whose image is a number and whose scale is a text with an exponent
ViewWithNumberImage ==
    Obj(("type" :> Str(LeafletMapType)) @@ ("mapName" :> Str(NameLower)) @@
        ("image" :> Num(5 * Unit)) @@ ("scale" :> Str(<<"1", "e", "3">>)))

\* nodes that are no map declaration
OtherLanguageNode ==
    [tagName |-> "code", dataLanguage |-> "js",
     parsed |-> Obj("views" :> Arr(<<viewFor(NameLower)>>))]
ParagraphNode == [tagName |-> "p", dataLanguage |-> Undefined, parsed |-> Null]
NodeWithoutViews == [tagName |-> "code", dataLanguage |-> "base", parsed |-> Null]

\* a block of language "base" whose text is no YAML, such as "views: ["
MalformedNode ==
    [tagName |-> "code", dataLanguage |-> "base", parsed |-> YAMLParseError]

ResolveTreeInputs ==
    {<<codeNode(<<zoomView(minZoom, maxZoom, defaultZoom)>>)>> :
        minZoom \in MinZoomInputs, maxZoom \in MaxZoomInputs,
        defaultZoom \in DefaultZoomInputs}
    \cup {<<codeNode(<<ViewTypeAndImage>>)>>, <<codeNode(<<ViewWithEveryField>>)>>,
          <<codeNode(<<ViewWithNumberImage>>)>>,
          <<codeNode(<<ViewWithoutImage>>)>>, <<OtherLanguageNode>>,
          <<ParagraphNode>>, <<NodeWithoutViews>>, <<>>,
          <<MalformedNode>>, <<MalformedNode, codeNode(<<viewFor(NameLower)>>)>>,
          <<codeNode(<<viewFor(NameLower)>>), MalformedNode>>,
          <<OtherLanguageNode, codeNode(<<viewFor(NameLower)>>)>>,
          <<codeNode(<<ViewWithoutImage>>), codeNode(<<viewFor(NameLower)>>)>>,
          <<codeNode(<<viewFor(NameLower)>>), ParagraphNode,
            codeNode(<<ViewWithEveryField>>)>>,
          <<codeNode(<<ViewTypeAndImage>>), codeNode(<<viewFor(NameConstructor)>>),
            codeNode(<<viewFor(NameLower)>>)>>}

ResolveDocumentInputs ==
    {[file |-> HtmlFile, children |-> children] : children \in ResolveTreeInputs}
    \cup {[file |-> HtmlFileWithoutSlug, children |-> children] :
             children \in {<<codeNode(<<viewFor(NameLower)>>)>>,
                           <<codeNode(<<ViewWithoutImage>>), OtherLanguageNode>>}}

\* markers of map "m" with and without a minZoom of their own
MarkerOwnZoomInputs == {Undefined, Num(0), Num(0 - Unit), Num(3 * Unit), Str(<<"1">>)}

zoomMarker(minZoom) == objectOf(markerFor(NameLower).obj @@ ("minZoom" :> minZoom))

MarkerZoomFileInputs ==
    {fileWith(Arr(<<zoomMarker(minZoom)>>)) : minZoom \in MarkerOwnZoomInputs}

MarkerZoomDocumentInputs ==
    {[file |-> HtmlFile,
      children |-> <<codeNode(<<zoomView(minZoom, Undefined, Undefined)>>)>>] :
        minZoom \in MinZoomInputs}

\* the documents of a site that is built again and again
RebuildFileInputs ==
    {fileWith(Arr(<<markerFor(NameLower)>>)), fileWith(Arr(<<markerFor(NameUpper)>>)),
     fileWith(Arr(<<MarkerWithoutMap>>))}

RebuildDocumentInputs ==
    {[file |-> HtmlFile, children |-> <<codeNode(<<view>>)>>] :
        view \in {viewFor(NameLower), viewFor(NameUpper), ViewWithoutName}}

----------------------------------------------------------------------------
(* Validator calls *)

\* SchemaValidator.marker(value)
ValidateMarker(value) ==
    /\ validation' = [op |-> "SchemaValidator.marker", value |-> value,
                      result |-> SchemaValidator_marker(value)]
    /\ UNCHANGED <<buildVars, toolVars, navVars>>

\* SchemaValidator.map(value)
ValidateMap(value) ==
    /\ validation' = [op |-> "SchemaValidator.map", value |-> value,
                      result |-> SchemaValidator_map(value)]
    /\ UNCHANGED <<buildVars, toolVars, navVars>>

----------------------------------------------------------------------------
(* The rendered fragment as the client's document holds it *)

\* transformLink and resolveRelative of util/path.ts, which stand in the
\* repository for the host's functions of these names
transformLink(src, target, opts) == Str(<<>>)

resolveRelative(current, target) == Str(<<>>)

\* the value of the attribute written for a property of the element: none for
\* undefined, null and NaN, String(value) for a number, the string itself, and
\* what transformLink and resolveRelative return for their calls
attributeOf(value) ==
    IF value = Undefined \/ value = Null \/ value = NaN THEN Undefined
    ELSE IF IsNumber(value) THEN Str(NumberToString(value))
    ELSE IF "transformLink" \in DOMAIN value
         THEN transformLink(value.transformLink[1], value.transformLink[2],
                            value.transformLink[3])
    ELSE IF "resolveRelative" \in DOMAIN value
         THEN resolveRelative(value.resolveRelative[1], value.resolveRelative[2])
    ELSE value

\* mapElement.dataset of a div.leaflet-map
mapDataset(div) ==
    objectOf([src |-> attributeOf(div.dataSrc),
              height |-> attributeOf(div.dataHeight),
              minZoom |-> attributeOf(div.dataMinZoom),
              maxZoom |-> attributeOf(div.dataMaxZoom),
              defaultZoom |-> attributeOf(div.dataDefaultZoom),
              zoomDelta |-> attributeOf(div.dataZoomDelta),
              scale |-> attributeOf(div.dataScale),
              unit |-> attributeOf(div.dataUnit)])

\* marker.dataset of a div.leaflet-marker
markerDataset(div) ==
    objectOf([name |-> attributeOf(div.dataName),
              link |-> attributeOf(div.dataLink),
              coordinates |-> attributeOf(div.dataCoordinates),
              icon |-> attributeOf(div.dataIcon),
              colour |-> attributeOf(div.dataColour),
              minZoom |-> attributeOf(div.dataMinZoom)])

----------------------------------------------------------------------------
(* CLIENT: MARKER.TS, MAP.TS, INLINE.TS *)

MaxViews == 2

\* the client's isNonEmptyObject: an object with a key whose values are
\* strings; the keys of an array are its indices and its values its elements
isNonEmptyObjectOfStrings(value) ==
    IF Falsy(value) \/ typeof(value) # "object" THEN FALSE
    ELSE IF IsArray(value)
         THEN /\ value.arr # <<>>
              /\ \A i \in DOMAIN value.arr : IsString(value.arr[i])
    ELSE /\ DOMAIN value.obj # {}
         /\ \A key \in DOMAIN value.obj : IsString(value.obj[key])

isMarkerDataSet(dataset) ==
    IF ~isNonEmptyObjectOfStrings(dataset) THEN FALSE
    ELSE ~(\/ Falsy(Get(dataset, "name"))
           \/ Falsy(Get(dataset, "link"))
           \/ Falsy(Get(dataset, "coordinates"))
           \/ Falsy(Get(dataset, "icon"))
           \/ Falsy(Get(dataset, "colour"))
           \/ Falsy(Get(dataset, "minZoom")))

\* a forEach that removes only the nodes whose dataset it pushes
forEachMarkerNodeRemovingPushed(map) ==
    [i \in DOMAIN map.children |->
        [pushed |-> isMarkerDataSet(markerDataset(map.children[i])),
         removed |-> isMarkerDataSet(markerDataset(map.children[i]))]]

\* the body of markers.forEach in getMarkerData for each div.leaflet-marker:
\* whether its dataset is pushed, and marker.remove()
forEachMarkerNode(map) ==
    [i \in DOMAIN map.children |->
        [pushed |-> isMarkerDataSet(markerDataset(map.children[i])),
         removed |-> TRUE]]

\* getMarkerData: the datasets that are pushed; every marker node is removed
getMarkerData(map) ==
    SelectSeq([i \in DOMAIN map.children |-> markerDataset(map.children[i])],
              isMarkerDataSet)

isMapDataSet(dataset) ==
    IF ~isNonEmptyObjectOfStrings(dataset) THEN FALSE
    ELSE ~(\/ Falsy(Get(dataset, "src"))
           \/ Falsy(Get(dataset, "height"))
           \/ Falsy(Get(dataset, "minZoom"))
           \/ Falsy(Get(dataset, "maxZoom"))
           \/ Falsy(Get(dataset, "defaultZoom"))
           \/ Falsy(Get(dataset, "zoomDelta"))
           \/ Falsy(Get(dataset, "scale"))
           \/ Falsy(Get(dataset, "unit")))

\* the error of a throw new Error(...)
Error == [threw |-> "Error"]

isNotWhitespace(c) == c \notin Whitespace

\* the index of the n-th separator in s, 0 for n = 0 and Len(s) + 1 behind the
\* last one
separatorAt(s, separator, n) ==
    IF n = 0 THEN 0
    ELSE IF n > Cardinality({t \in 1..Len(s) : s[t] = separator}) THEN Len(s) + 1
    ELSE CHOOSE j \in 1..Len(s) :
             s[j] = separator /\ Cardinality({t \in 1..j : s[t] = separator}) = n

\* s.split(separator) for a separator of one code unit
split(s, separator) ==
    <<>> \o [n \in 1..(Cardinality({t \in 1..Len(s) : s[t] = separator}) + 1) |->
                SubSeq(s, separatorAt(s, separator, n - 1) + 1,
                       separatorAt(s, separator, n) - 1)]

HexValue ==
    DigitValue @@ ("a" :> 10) @@ ("b" :> 11) @@ ("c" :> 12) @@ ("d" :> 13) @@
    ("e" :> 14) @@ ("f" :> 15) @@ ("A" :> 10) @@ ("B" :> 11) @@ ("C" :> 12) @@
    ("D" :> 13) @@ ("E" :> 14) @@ ("F" :> 15)

\* the first index from i on that holds no digit of the radix 16
hexDigitsEnd(s, i) ==
    IF i > Len(s) THEN i
    ELSE IF \A j \in i..Len(s) : s[j] \in DOMAIN HexValue THEN Len(s) + 1
    ELSE CHOOSE j \in i..Len(s) :
             s[j] \notin DOMAIN HexValue /\ \A t \in i..(j - 1) : s[t] \in DOMAIN HexValue

\* the bits of the digits of the radix 16, four to a digit
hexBits(d) ==
    <<>> \o [j \in 1..(4 * Len(d)) |->
                (HexValue[d[(j + 3) \div 4]] \div (2 ^ (3 - ((j - 1) % 4)))) % 2]

\* the natural number x followed by the bits from index i on
RECURSIVE natOfBitsBy(_, _, _)
natOfBitsBy(bits, x, i) ==
    IF Len(x) = 0 \/ i > Len(bits) THEN x
    ELSE natOfBitsBy(bits, natOfBitsFrom(bits, x, i, 8), i + 8)

\* the integer of the digits d of the radix 16
hexNumber(sign, d) ==
    decimalOf(sign, digitCharsOf(natOfBitsBy(hexBits(d), <<0>>, 1)),
              Len(natOfBitsBy(hexBits(d), <<0>>, 1)))

\* behind the sign: the digits of the radix 16 behind 0x or 0X, and else the
\* digits of the radix 10; NaN where there is none
parseIntUnsigned(s, sign, b) ==
    IF b + 1 <= Len(s) /\ s[b] = "0" /\ s[b + 1] \in {"x", "X"}
    THEN (IF hexDigitsEnd(s, b + 2) = b + 2 THEN NaN
          ELSE hexNumber(sign, SubSeq(s, b + 2, hexDigitsEnd(s, b + 2) - 1)))
    ELSE IF digitsEnd(s, b) = b THEN NaN
    ELSE decimalOf(sign, SubSeq(s, b, digitsEnd(s, b) - 1), digitsEnd(s, b) - b)

parseIntSigned(s, a) ==
    IF a <= Len(s) /\ s[a] = "-" THEN parseIntUnsigned(s, 0 - 1, a + 1)
    ELSE IF a <= Len(s) /\ s[a] = "+" THEN parseIntUnsigned(s, 1, a + 1)
    ELSE parseIntUnsigned(s, 1, a)

\* parseInt(string) without a radix: leading whitespace, a sign, and the
\* digits up to the first code unit that is none
parseInt(string) == parseIntSigned(string, skipWhitespace(string, 1))

\* parseCoordinates: the two numbers, or the error for coordinates that are
\* not two parts
parseCoordinates(coordinates) ==
    LET parsedCoordinates ==
            split(SelectSeq(coordinates, isNotWhitespace), ",")
    IN IF Len(parsedCoordinates) # 2 THEN Error
       ELSE Returned(Arr(<<parseInt(parsedCoordinates[1]),
                           parseInt(parsedCoordinates[2])>>))

\* const tolerance = 0.00001
tolerance == Unit \div 100000

\* the digits d and the point p of a number 0.d * 10^p other than 0
numeralOf(v) ==
    IF "big" \in DOMAIN v THEN [d |-> v.big, p |-> v.point]
    ELSE LET a == IF v.num < 0 THEN 0 - v.num ELSE v.num
             digits == digitsOf(a \div Unit) \o paddedDigits(a % Unit, 5) \o belowOf(v)
         IN [d |-> SubSeq(digits, zerosInFront(digits) + 1, Len(digits)),
             p |-> Len(digitsOf(a \div Unit)) - zerosInFront(digits)]

\* all the digits of the double of a number other than 0, the last decimals
\* of them behind the point
expansionOf(x) ==
    [digits |-> expansion(x.bits, x.k), decimals |-> IF x.k < 0 THEN 0 - x.k ELSE 0]

nearestDoubleOf(numeral) == nearestDouble(numeral.d, numeral.p)

exactOf(v) == expansionOf(nearestDoubleOf(numeralOf(v)))

\* the digits of x written with n decimals
withDecimals(x, n) == x.digits \o noughts(n - x.decimals)

\* sign * 0.x * 10^(Len(x) - n): the number whose digits x end with n decimals
numberOfDigits(sign, x, n) == decimalOf(sign, digitCharsOf(x), Len(x) - n)

\* the number nearest to a - b for the digits x of |a| and y of b, both with
\* n decimals
differenceOf(negative, x, y, n) ==
    IF negative THEN numberOfDigits(0 - 1, sum(x, y), n)
    ELSE IF natLess(x, y) THEN numberOfDigits(0 - 1, minus(y, x), n)
    ELSE numberOfDigits(1, minus(x, y), n)

differenceWithDecimals(negative, x, y, n) ==
    differenceOf(negative, withDecimals(x, n), withDecimals(y, n), n)

\* the number nearest to a - b for all the digits x of |a| and y of b
differenceOfExact(negative, x, y) ==
    differenceWithDecimals(negative, x, y,
        IF x.decimals < y.decimals THEN y.decimals ELSE x.decimals)

\* a - b for a number a and a number b above 0: the double nearest to the
\* difference of the two doubles
minusDouble(a, b) ==
    IF a = NaN THEN NaN
    ELSE IF "inf" \in DOMAIN a THEN a
    ELSE IF a = Num(0) THEN Num(0 - b.num)
    ELSE differenceOfExact(isNegative(a), exactOf(a), exactOf(b))

\* addMarkerWhenZoom: TRUE when the marker is added to the map, FALSE when it
\* is removed.  mapItem.getZoom() >= markerZoom - tolerance compares two
\* doubles, and a comparison with NaN is false.
addMarkerWhenZoom(zoom, markerZoom) ==
    /\ markerZoom # NaN
    /\ ~less(zoom, minusDouble(markerZoom, Num(tolerance)))

\* addMarker: the marker it makes, on the map or not under the zoom of the
\* map, or the error of parseCoordinates, before which nothing is done
markerOf(minZoom, markerZoom, latlng, zoom) ==
    IF latlng = Error THEN Error
    ELSE Returned([minZoom |-> minZoom,
                   markerZoom |-> markerZoom,
                   latlng |-> latlng.returned,
                   onMap |-> addMarkerWhenZoom(zoom, markerZoom)])

addMarker(markerData, zoom) ==
    markerOf(Get(markerData, "minZoom").str,
             parseFloatString(Get(markerData, "minZoom").str),
             parseCoordinates(Get(markerData, "coordinates").str),
             zoom)

\* markers.map((marker) => addMarker(marker, mapItem)) behind the markers
\* placed: the markers made before the first error, and whether there was one
RECURSIVE addMarkers(_, _, _)
afterAddMarker(markers, zoom, placed, marker) ==
    IF marker = Error THEN [placed |-> placed, threw |-> TRUE]
    ELSE addMarkers(markers, zoom, Append(placed, marker.returned))

addMarkers(markers, zoom, placed) ==
    IF Len(placed) = Len(markers) THEN [placed |-> placed, threw |-> FALSE]
    ELSE afterAddMarker(markers, zoom, placed, addMarker(markers[Len(placed) + 1], zoom))

\* what the listeners registered on "zoomend" leave of the markers
zoomend(markers, zoom) ==
    [i \in DOMAIN markers |->
        [markers[i] EXCEPT !.onMap = addMarkerWhenZoom(zoom, markers[i].markerZoom)]]

\* the callback of maps.forEach up to its await: getMarkerData, and
\* initialiseMap up to its return or to the await of the image
navCallback(map, view) ==
    [view |-> view,
     children |-> Len(map.children),
     markerNodes |-> Cardinality({i \in DOMAIN map.children :
                                      ~forEachMarkerNode(map)[i].removed}),
     markerData |-> Len(getMarkerData(map)),
     datasets |-> getMarkerData(map),
     accepted |-> isMapDataSet(mapDataset(map)),
     image |-> IF isMapDataSet(mapDataset(map)) THEN "pending" ELSE "none",
     awaiting |-> isMapDataSet(mapDataset(map)),
     mapItem |-> "none",
     zoom |-> Undefined,
     placed |-> <<>>,
     markers |-> 0,
     threw |-> FALSE,
     attached |-> TRUE,
     late |-> FALSE]

\* image.onerror: getImageMeta rejects, the await in initialiseMap and the one
\* in the callback of this map throw, and nothing runs after them
afterImageFailed(maps, k) ==
    [maps EXCEPT ![k].image = "failed", ![k].awaiting = FALSE]

\* image.onload: the rest of initialiseMap, and then window.addCleanup in the
\* callback.  L.map, the controls and the overlay make the map item;
\* fitBounds leaves it at the zoom fit; the markers are added under that zoom;
\* setZoom leaves it at the zoom set and ends with "zoomend".  Where an
\* addMarker throws, initialiseMap ends there: the map item stays with the
\* markers made so far, and neither setZoom nor window.addCleanup is reached.
afterMarkersAdded(maps, k, fit, set, added) ==
    [maps EXCEPT ![k].image = "loaded",
                 ![k].awaiting = FALSE,
                 ![k].mapItem = "alive",
                 ![k].zoom = IF added.threw THEN fit ELSE set,
                 ![k].placed = IF added.threw THEN added.placed
                               ELSE zoomend(added.placed, set),
                 ![k].markers = Len(added.placed),
                 ![k].threw = added.threw,
                 ![k].late = ~maps[k].attached]

afterImageLoaded(maps, k, fit, set) ==
    IF ~maps[k].awaiting THEN [maps EXCEPT ![k].image = "loaded"]
    ELSE afterMarkersAdded(maps, k, fit, set, addMarkers(maps[k].datasets, fit, <<>>))

\* cleanupMap of the map item of element k: clearAllEventListeners and
\* remove, which takes the map and its markers out of the document
cleanupMap(maps, k) ==
    IF maps[k].mapItem = "alive"
    THEN [maps EXCEPT ![k].mapItem = "removed", ![k].zoom = Undefined, ![k].placed = <<>>]
    ELSE maps

RECURSIVE runCleanups(_, _)
runCleanups(maps, fns) ==
    IF fns = {} THEN maps
    ELSE LET k == CHOOSE k \in fns : TRUE
         IN runCleanups(cleanupMap(maps, k), fns \ {k})

\* the "nav" listener on a document with these div.leaflet-map elements
Nav(page) ==
    /\ ~viewActive
    /\ viewCount < MaxViews
    /\ viewActive' = TRUE
    /\ viewCount' = viewCount + 1
    /\ navMaps' = navMaps \o [i \in DOMAIN page |-> navCallback(page[i], viewCount + 1)]
    /\ cleanupFns' = cleanupFns \cup
          {Len(navMaps) + i : i \in {i \in DOMAIN page : ~isMapDataSet(mapDataset(page[i]))}}
    /\ UNCHANGED <<buildVars, toolVars, validatorVars>>

\* the image of map element k has loaded; fit and set are mapItem.getZoom()
\* after fitBounds and after setZoom
ImageLoaded(k, fit, set) ==
    /\ k \in DOMAIN navMaps
    /\ navMaps[k].image = "pending"
    /\ navMaps' = afterImageLoaded(navMaps, k, fit, set)
    /\ cleanupFns' = IF navMaps[k].awaiting /\ ~navMaps'[k].threw
                     THEN cleanupFns \cup {k} ELSE cleanupFns
    /\ UNCHANGED <<viewActive, viewCount, buildVars, toolVars, validatorVars>>

\* the reader zooms the map of element k: "zoomend" at the zoom it ends with
ZoomEnd(k, zoom) ==
    /\ k \in DOMAIN navMaps
    /\ navMaps[k].mapItem = "alive"
    /\ navMaps' = [navMaps EXCEPT ![k].zoom = zoom,
                                  ![k].placed = zoomend(navMaps[k].placed, zoom)]
    /\ UNCHANGED <<cleanupFns, viewActive, viewCount, buildVars, toolVars,
                   validatorVars>>

\* the image of map element k failed to load
ImageFailed(k) ==
    /\ k \in DOMAIN navMaps
    /\ navMaps[k].image = "pending"
    /\ navMaps' = afterImageFailed(navMaps, k)
    /\ UNCHANGED <<cleanupFns, viewActive, viewCount, buildVars, toolVars,
                   validatorVars>>

\* the view is left: the host runs the callbacks of window.addCleanup, forgets
\* them and takes the elements of the view out of the document
Deactivate ==
    /\ viewActive
    /\ navMaps' = [k \in DOMAIN navMaps |->
                      [runCleanups(navMaps, cleanupFns)[k] EXCEPT !.attached = FALSE]]
    /\ cleanupFns' = {}
    /\ viewActive' = FALSE
    /\ UNCHANGED <<viewCount, buildVars, toolVars, validatorVars>>

----------------------------------------------------------------------------
(* CLIENT: SRC/INLINE.TS, the listener that takes the maps one after another *)

inlineIsMarkerDataSet(dataset) ==
    ~(\/ Falsy(Get(dataset, "name"))
      \/ Falsy(Get(dataset, "link"))
      \/ Falsy(Get(dataset, "posX"))
      \/ Falsy(Get(dataset, "posY"))
      \/ Falsy(Get(dataset, "icon"))
      \/ Falsy(Get(dataset, "colour"))
      \/ Falsy(Get(dataset, "minZoom")))

inlineIsMapDataSet(dataset) ==
    ~(\/ Falsy(Get(dataset, "src"))
      \/ Falsy(Get(dataset, "minZoom"))
      \/ Falsy(Get(dataset, "maxZoom")))

\* getMarkerData: the datasets that are pushed; every marker node is removed
inlineGetMarkerData(markers) == SelectSeq(markers, inlineIsMarkerDataSet)

\* addMarkerWhenZoom: TRUE when the marker is added to the map, FALSE when it
\* is removed; a comparison with NaN is false
inlineAddMarkerWhenZoom(zoom, markerZoom) ==
    /\ markerZoom # NaN
    /\ ~less(zoom, markerZoom)

\* addMarker: the marker it makes, on the map or not under the zoom of the map
inlineAddMarker(markerData, zoom) ==
    [minZoom |-> Get(markerData, "minZoom").str,
     markerZoom |-> parseInt(Get(markerData, "minZoom").str),
     latlng |-> Arr(<<parseInt(Get(markerData, "posY").str),
                      parseInt(Get(markerData, "posX").str)>>),
     onMap |-> inlineAddMarkerWhenZoom(zoom,
                                       parseInt(Get(markerData, "minZoom").str))]

\* what the listeners registered on "zoomend" leave of the markers
inlineZoomend(markers, zoom) ==
    [i \in DOMAIN markers |->
        [markers[i] EXCEPT
            !.onMap = inlineAddMarkerWhenZoom(zoom, markers[i].markerZoom)]]

\* image.onload: the rest of initialiseMap.  L.map and the overlay make the
\* map item, fitBounds leaves it at the zoom fit, and the markers are added
\* under that zoom.
inlineAfterImageLoaded(maps, k, fit) ==
    IF ~maps[k].awaiting THEN [maps EXCEPT ![k].image = "loaded"]
    ELSE [maps EXCEPT ![k].image = "loaded",
                      ![k].awaiting = FALSE,
                      ![k].mapItem = "alive",
                      ![k].zoom = fit,
                      ![k].placed = [i \in DOMAIN maps[k].datasets |->
                                        inlineAddMarker(maps[k].datasets[i], fit)],
                      ![k].markers = Len(maps[k].datasets),
                      ![k].late = ~maps[k].attached]

\* a div.leaflet-map that the loop of the listener has not reached yet
inlineElement(map, view) ==
    [view |-> view,
     children |-> Len(map.children),
     markerNodes |-> Len(map.children),
     markerData |-> Len(inlineGetMarkerData(map.children)),
     datasets |-> inlineGetMarkerData(map.children),
     accepted |-> inlineIsMapDataSet(map.dataset),
     image |-> "none",
     awaiting |-> FALSE,
     mapItem |-> "none",
     zoom |-> Undefined,
     placed |-> <<>>,
     markers |-> 0,
     threw |-> FALSE,
     attached |-> TRUE,
     late |-> FALSE]

\* the loop of the listener from element k on, up to its next await of an
\* image: getMarkerData removes the marker nodes, initialiseMap returns at once
\* for an incomplete dataset, and then window.addCleanup and the next element
RECURSIVE inlineLoop(_, _, _, _)
inlineLoop(maps, fns, k, view) ==
    IF k > Len(maps) \/ maps[k].view # view THEN [maps |-> maps, fns |-> fns]
    ELSE IF ~maps[k].accepted
         THEN inlineLoop([maps EXCEPT ![k].markerNodes = 0], fns \cup {k}, k + 1, view)
    ELSE [maps |-> [maps EXCEPT ![k].markerNodes = 0,
                                ![k].image = "pending",
                                ![k].awaiting = TRUE],
          fns |-> fns]

\* the "nav" listener on a document with these div.leaflet-map elements
InlineNav(page) ==
    /\ ~viewActive
    /\ viewCount < MaxViews
    /\ viewActive' = TRUE
    /\ viewCount' = viewCount + 1
    /\ LET started == inlineLoop(navMaps \o [i \in DOMAIN page |->
                                                inlineElement(page[i], viewCount + 1)],
                                 cleanupFns, Len(navMaps) + 1, viewCount + 1)
       IN /\ navMaps' = started.maps
          /\ cleanupFns' = started.fns
    /\ UNCHANGED <<buildVars, toolVars, validatorVars>>

\* image.onload: the rest of initialiseMap, window.addCleanup, and the loop
\* goes on with the next element; fit is mapItem.getZoom() after fitBounds
InlineImageLoaded(k, fit) ==
    /\ k \in DOMAIN navMaps
    /\ navMaps[k].image = "pending"
    /\ LET resumed == inlineLoop(inlineAfterImageLoaded(navMaps, k, fit),
                                 cleanupFns \cup {k}, k + 1, navMaps[k].view)
       IN /\ navMaps' = resumed.maps
          /\ cleanupFns' = resumed.fns
    /\ UNCHANGED <<viewActive, viewCount, buildVars, toolVars, validatorVars>>

\* the reader zooms the map of element k: "zoomend" at the zoom it ends with
InlineZoomEnd(k, zoom) ==
    /\ k \in DOMAIN navMaps
    /\ navMaps[k].mapItem = "alive"
    /\ navMaps' = [navMaps EXCEPT ![k].zoom = zoom,
                                  ![k].placed = inlineZoomend(navMaps[k].placed, zoom)]
    /\ UNCHANGED <<cleanupFns, viewActive, viewCount, buildVars, toolVars,
                   validatorVars>>

\* image.onerror: getMeta rejects, the await in initialiseMap and the one in
\* the loop throw, and the listener ends with the elements that are left
InlineImageFailed(k) ==
    /\ k \in DOMAIN navMaps
    /\ navMaps[k].image = "pending"
    /\ navMaps' = afterImageFailed(navMaps, k)
    /\ UNCHANGED <<cleanupFns, viewActive, viewCount, buildVars, toolVars,
                   validatorVars>>

----------------------------------------------------------------------------
(* Inputs of the client's documents *)

SomeColour == Str(<<"f", "4", "4">>)
SomeUnit == Str(<<"k", "m">>)

MarkerWithColour ==
    Obj(("mapName" :> Str(NameLower)) @@ ("coordinates" :> ValidCoordinates) @@
        ("icon" :> SomeIcon) @@ ("colour" :> SomeColour))

\* a map declaration with a unit
ViewWithUnit == Obj(("unit" :> SomeUnit) @@ viewFor(NameLower).obj)

\* a map declaration with a unit whose zooms are 0
ViewWithZeros ==
    Obj(("unit" :> SomeUnit) @@ ("minZoom" :> Num(0)) @@ ("maxZoom" :> Num(0)) @@
        ("defaultZoom" :> Num(0)) @@ viewFor(NameLower).obj)

\* the registry after buildMarkerData on a file with these marker entries
registryOf(entries) ==
    forEachMarker((NotDefinedMap :> <<>>), <<>>,
                  parsedMarkers(entries, SomeTitle, SomeSlug, 1)).markerMap

\* the div.leaflet-map that transformMapElement renders for a declaration
fragmentOf(entries, view) ==
    buildMapData(BuildContext, registryOf(entries), HtmlFile,
                 codeNode(<<view>>)).element.children[1]

\* a relative URL, as the link helpers of the host return one
HostLink == Str(<<".", "/", "a">>)

\* the fragment as a build under the host renders it: data-src and data-link
\* are what the host's transformLink and resolveRelative return
underHost(div) ==
    [div EXCEPT !.dataSrc = HostLink,
                !.children = [i \in DOMAIN div.children |->
                                 [div.children[i] EXCEPT !.dataLink = HostLink]]]

\* the fragment as the repository renders it, its links empty
MapOfRepository == fragmentOf(<<MarkerWithColour>>, ViewWithUnit)

MapWithMarker == underHost(fragmentOf(<<MarkerWithColour>>, ViewWithUnit))
MapWithZeros == underHost(fragmentOf(<<>>, ViewWithZeros))
MapWithoutUnit == underHost(fragmentOf(<<MarkerWithColour>>, viewFor(NameLower)))
MapWithPlainMarker ==
    underHost(fragmentOf(<<markerFor(NameLower), MarkerWithColour>>, ViewWithUnit))

\* a marker of map "m" whose coordinates are three numbers
MarkerOfThreeParts ==
    Obj(("coordinates" :> Str(<<"1", ",", "2", ",", "3">>)) @@ MarkerWithColour.obj)

MapWithThreeParts ==
    underHost(fragmentOf(<<MarkerWithColour, MarkerOfThreeParts>>, ViewWithUnit))

\* the div.leaflet-map elements of the documents the reader visits
PageInputs ==
    {<<MapWithMarker>>, <<MapWithMarker, MapWithZeros>>, <<MapWithoutUnit, MapWithMarker>>,
     <<MapWithPlainMarker>>, <<MapOfRepository>>, <<MapWithThreeParts>>}

\* a marker of map "m" with a minZoom of its own
MarkerShownFrom(minZoom) == objectOf(("minZoom" :> minZoom) @@ MarkerWithColour.obj)

\* the minZoom of the markers: none, 0.1, 0.60001, 1.499995, 1.5, 2 and -1
MarkerMinZoomInputs ==
    {Undefined, Num(Unit \div 10), Num((6 * Unit) \div 10 + 1),
     [num |-> (3 * Unit) \div 2 - 1, below |-> <<"5">>, neg |-> FALSE],
     Num((3 * Unit) \div 2), Num(2 * Unit), Num(0 - Unit)}

\* a document with one map and these markers on it
pageOf(markers) == <<underHost(fragmentOf(markers, ViewWithUnit))>>

ZoomPageInputs ==
    {pageOf(<<MarkerShownFrom(minZoom)>>) : minZoom \in MarkerMinZoomInputs}
    \cup {pageOf(<<MarkerShownFrom(Num((3 * Unit) \div 2)), MarkerShownFrom(Num(2 * Unit))>>),
          pageOf(<<MarkerOfThreeParts>>),
          pageOf(<<MarkerShownFrom(Num((3 * Unit) \div 2)), MarkerOfThreeParts,
                   MarkerShownFrom(Num(2 * Unit))>>)}

\* mapItem.getZoom() after fitBounds, setZoom or a zoom of the reader: 0,
\* 0.09999, 0.1, 0.6, 1, 1.49998, 1.49999, 1.5 and 2
ZoomInputs ==
    {Num(0), Num(Unit \div 10 - 1), Num(Unit \div 10), Num((6 * Unit) \div 10),
     Num(Unit), Num((3 * Unit) \div 2 - 2), Num((3 * Unit) \div 2 - 1),
     Num((3 * Unit) \div 2), Num(2 * Unit)}

\* mapItem.getZoom() after fitBounds
FitInputs == {Num(0), Num(Unit)}

\* the elements of a document for the listener of src/inline.ts
InlineMarker ==
    Obj([name |-> SomeTitle, link |-> Str(<<".", "/", "s">>), posX |-> Str(<<"1", "0">>),
         posY |-> Str(<<"5">>), icon |-> SomeIcon, colour |-> SomeColour,
         minZoom |-> Str(<<"0">>)])

InlineMap ==
    [dataset |-> Obj([src |-> Str(<<"a">>), minZoom |-> Str(<<"0">>),
                      maxZoom |-> Str(<<"2">>)]),
     children |-> <<InlineMarker>>]

InlineMapWithoutSrc ==
    [dataset |-> Obj([minZoom |-> Str(<<"0">>), maxZoom |-> Str(<<"2">>)]),
     children |-> <<>>]

InlinePageInputs ==
    {<<InlineMap>>, <<InlineMap, InlineMap>>, <<InlineMapWithoutSrc, InlineMap>>,
     <<InlineMap, InlineMapWithoutSrc, InlineMap>>}

----------------------------------------------------------------------------
(* Specifications *)

BuildInit ==
    /\ markerMap = (NotDefinedMap :> <<>>)
    /\ nextId = 1
    /\ registered = <<>>
    /\ treeIn = <<>>
    /\ tree = <<>>
    /\ treeAt = 0
    /\ lastCall = [op |-> "init", tick |-> 0, threw |-> FALSE]
    /\ buildStart = 0

\* the client after ControlContainer.onAdd and updateSettings(dataset)
ToolInit ==
    /\ isSelected = [control \in {"PanControl", "MeasureControl"} |->
                        control = controlsAt(0)]
    /\ activeIndex = 0
    /\ cursor = ""
    /\ moveListeners = 0
    /\ state = "Ready"
    /\ pathItems = <<>>
    /\ distance = Whole(0)
    /\ pathLine = <<>>
    /\ previewLine = <<>>
    /\ previewTooltip = [shown |-> FALSE, latlng |-> NoLatLng, content |-> Whole(0)]
    /\ pointLayer = <<>>
    /\ lastElement = 0
    /\ event = [type |-> "init", latlng |-> NoLatLng, index |-> 0]

ValidatorInit ==
    validation = [op |-> "init", value |-> Undefined, result |-> Returned(FALSE)]

\* the client's document before the first "nav"
NavInit ==
    /\ navMaps = <<>>
    /\ cleanupFns = {}
    /\ viewActive = FALSE
    /\ viewCount = 0

Init ==
    /\ BuildInit /\ ToolInit /\ options = [scale |-> 1] /\ ValidatorInit /\ NavInit

Next ==
    \/ \E file \in FileInputs :
          buildMarkerData(file) /\ UNCHANGED <<toolVars, validatorVars, navVars>>
    \/ \E document \in DocumentInputs :
          /\ transformMapElement(BuildContext, document.file, document.children)
          /\ UNCHANGED <<toolVars, validatorVars, navVars>>

Spec == Init /\ [][Next]_vars

ToolSpecInit ==
    /\ BuildInit /\ ToolInit /\ ValidatorInit /\ NavInit
    /\ options \in {[scale |-> s] : s \in ScaleInputs}

ToolNext ==
    \/ \E index \in ControlIndices : ButtonClicked(index)
    \/ \E latlng \in LatLngInputs : MapClicked(latlng)
    \/ \E i \in 1..MaxPath : CircleClicked(i)
    \/ \E latlng \in LatLngInputs : MouseMoved(latlng)

ToolSpec == ToolSpecInit /\ [][ToolNext]_vars

ValidatorNext ==
    \/ \E value \in MarkerValueInputs : ValidateMarker(value)
    \/ \E value \in MapValueInputs : ValidateMap(value)

ValidatorSpec == Init /\ [][ValidatorNext]_vars

\* the build over the map declarations and their zoom settings
ResolveNext ==
    \/ \E file \in ResolveFileInputs :
          buildMarkerData(file) /\ UNCHANGED <<toolVars, validatorVars, navVars>>
    \/ \E document \in ResolveDocumentInputs :
          /\ transformMapElement(BuildContext, document.file, document.children)
          /\ UNCHANGED <<toolVars, validatorVars, navVars>>

ResolveSpec == Init /\ [][ResolveNext]_vars

\* builds that follow each other in one process, as when the host serves and
\* rebuilds on a change
RebuildNext ==
    \/ LeafletMap /\ UNCHANGED <<toolVars, validatorVars, navVars>>
    \/ \E file \in RebuildFileInputs :
          buildMarkerData(file) /\ UNCHANGED <<toolVars, validatorVars, navVars>>
    \/ \E document \in RebuildDocumentInputs :
          /\ transformMapElement(BuildContext, document.file, document.children)
          /\ UNCHANGED <<toolVars, validatorVars, navVars>>

RebuildSpec == Init /\ [][RebuildNext]_vars

\* markers with a minZoom of their own on maps with a minZoom of their own
MarkerZoomNext ==
    \/ \E file \in MarkerZoomFileInputs :
          buildMarkerData(file) /\ UNCHANGED <<toolVars, validatorVars, navVars>>
    \/ \E document \in MarkerZoomDocumentInputs :
          /\ transformMapElement(BuildContext, document.file, document.children)
          /\ UNCHANGED <<toolVars, validatorVars, navVars>>

MarkerZoomSpec == Init /\ [][MarkerZoomNext]_vars

\* one view: "nav", the image loads or fails, and the zooms of the reader
ZoomNext ==
    \/ \E page \in ZoomPageInputs : Nav(page)
    \/ \E k \in DOMAIN navMaps, fit \in FitInputs, set \in ZoomInputs :
          ImageLoaded(k, fit, set)
    \/ \E k \in DOMAIN navMaps, zoom \in ZoomInputs : ZoomEnd(k, zoom)
    \/ \E k \in DOMAIN navMaps : ImageFailed(k)

ZoomSpec == Init /\ [][ZoomNext]_vars

\* the views of one visit: "nav", the image loads (fitBounds leaves the map
\* at zoom 0, setZoom at zoom 1) or fails, the reader zooms to 1, and the
\* teardown
NavNext ==
    \/ \E page \in PageInputs : Nav(page)
    \/ \E k \in DOMAIN navMaps : ImageLoaded(k, Num(0), Num(Unit))
    \/ \E k \in DOMAIN navMaps : ZoomEnd(k, Num(Unit))
    \/ \E k \in DOMAIN navMaps : ImageFailed(k)
    \/ Deactivate

NavSpec == Init /\ [][NavNext]_vars

\* the views of one visit under the listener of src/inline.ts
InlineNavNext ==
    \/ \E page \in InlinePageInputs : InlineNav(page)
    \/ \E k \in DOMAIN navMaps, fit \in FitInputs : InlineImageLoaded(k, fit)
    \/ \E k \in DOMAIN navMaps, zoom \in FitInputs : InlineZoomEnd(k, zoom)
    \/ \E k \in DOMAIN navMaps : InlineImageFailed(k)
    \/ Deactivate

InlineNavSpec == Init /\ [][InlineNavNext]_vars

----------------------------------------------------------------------------
(* Reading the build's state *)

\* a is longer than b: it has more of something and less of nothing
Longer(a, b) ==
    /\ a # b
    /\ a.whole >= b.whole
    /\ \A r \in DOMAIN a.roots \cup DOMAIN b.roots :
          coefficient(a, r) >= coefficient(b, r)

Range(f) == {f[x] : x \in DOMAIN f}

\* the positions of the last tree where a map fragment replaced the block
RenderedMaps == {i \in DOMAIN tree : tree[i].tagName = "div"}

\* the name of the map declared by the block at position i
MapNameAt(i) == Get(parseMapFromNode(treeIn[i]), "name")

\* the marker children of the fragment at position i
MarkerChildren(i) == tree[i].children[1].children

\* the markers pushed before the last tree was transformed
RegisteredBefore == SubSeq(registered, 1, treeAt)

\* the marker object with this identity
MarkerOf(id) == CHOOSE marker \in Range(registered) : marker.id = id

\* the number of children of the fragment at i that render this marker
Occurrences(i, marker) ==
    Cardinality({k \in DOMAIN MarkerChildren(i) :
                    MarkerChildren(i)[k].of = marker.id})

NamesMap(marker, M) == Get(marker, "mapName") = Str(M)

MapNameInputs == {NameLower, NameUpper, NamePadded, NotDefinedMap, NameConstructor}

----------------------------------------------------------------------------
(* Claims about the registry *)

\* C1: after any sequence of buildMarkerData calls, for every map name M the
\* marker list used to resolve a map named M is the unassigned bucket followed
\* by M's bucket, and every marker registered with mapName = M occurs in it
\* exactly once, in registration order.
C1_LookupHoldsEachMarkerOnceInOrder ==
    \A M \in MapNameInputs :
        LET lookup == lookupMarkers(markerMap, Str(M))
            list == lookup.markers
        IN ~lookup.threw =>
           /\ list = markerMap[NotDefinedMap]
                     \o (IF M \in DOMAIN markerMap THEN markerMap[M] ELSE <<>>)
           /\ SelectSeq(list, LAMBDA marker : NamesMap(marker, M))
              = SelectSeq(registered, LAMBDA marker : NamesMap(marker, M))

\* C2: a marker registered under map name M before a map named M is resolved
\* is among that map's marker children, and a marker registered under another
\* map name N # M is never among the children of a map named M.
C2_OwnMarkersRenderedOthersNever ==
    \A i \in RenderedMaps :
        LET M == MapNameAt(i)
        IN ~Falsy(M) =>
             /\ \A marker \in Range(RegisteredBefore) :
                    NamesMap(marker, M.str) => Occurrences(i, marker) >= 1
             /\ \A k \in DOMAIN MarkerChildren(i) :
                    LET N == Get(MarkerOf(MarkerChildren(i)[k].of), "mapName")
                    IN Falsy(N) \/ N = M

\* C8: buckets are keyed by the lowercased, trimmed map name on registration
\* and on lookup: a marker whose mapName differs from a map's name only in
\* letter case or surrounding whitespace is rendered on that map.
C8_NamesMatchUpToCaseAndWhitespace ==
    \A i \in RenderedMaps :
        LET M == MapNameAt(i)
        IN ~Falsy(M) =>
             \A marker \in Range(RegisteredBefore) :
                 LET N == Get(marker, "mapName")
                 IN (~Falsy(N) /\ normalisedName(N.str) = normalisedName(M.str))
                    => Occurrences(i, marker) >= 1

\* the entries of a list that pass the marker validation
validEntries(list) ==
    SelectSeq(list, LAMBDA entry : isProperEntry(entry) /\ SchemaValidator_marker(entry).returned)

\* C9: marker metadata is accepted as one object or as a list: a document
\* with a title and a slug whose marker metadata is one valid marker object
\* gets exactly one MarkerEntry registered.
C9_SingleObjectRegistersOneMarker ==
    [][\A entry \in EntryInputs :
          (buildMarkerData(fileWith(entry)) /\ validEntries(<<entry>>) # <<>>)
          => Len(registered') = Len(registered) + 1]_vars

\* the registered markers that come from this entry, by their own fields
FromEntry(marker, entry) ==
    \A key \in DOMAIN entry.obj : Get(marker, key) = entry.obj[key]

\* C10: of a list with valid and invalid entries every valid entry is
\* registered, in its own map's bucket, and every invalid entry is dropped; the
\* invalid entries never prevent the registration of the valid ones.
C10_ValidEntriesOfAListAreAllRegistered ==
    [][\A list \in ListInputs :
          buildMarkerData(fileWith(Arr(list))) =>
             LET valid == validEntries(list)
                 added == SubSeq(registered', Len(registered) + 1, Len(registered'))
             IN /\ Len(added) = Len(valid)
                /\ \A k \in DOMAIN valid :
                      /\ FromEntry(added[k], valid[k])
                      /\ \E j \in DOMAIN markerMap'[bucketKey(Get(valid[k], "mapName"))] :
                            markerMap'[bucketKey(Get(valid[k], "mapName"))][j] = added[k]]_vars

----------------------------------------------------------------------------
(* Claims about the tool control *)

MeasureSelected == isSelected["MeasureControl"]

MeasureIndex == CHOOSE index \in ControlIndices : controlsAt(index) = "MeasureControl"

\* C3: from Measuring a click on the path's tail marker moves to Finishing;
\* the next map click moves to Done, puts the permanent tooltip on the final
\* point and removes the preview tooltip; the map click after that clears the
\* path, zeroes the distance and returns to Ready.
C3_TailClickFinishesThenDoneThenReady ==
    [][/\ (event'.type = "circleclick" /\ state = "Measuring"
           /\ event'.index = Len(pointLayer))
          => state' = "Finishing"
       /\ (event'.type = "click" /\ MeasureSelected /\ state = "Finishing")
          => /\ state' = "Done"
             /\ pointLayer'[Len(pointLayer')].tooltip
             /\ pointLayer'[Len(pointLayer')].latlng = pathItems'[Len(pathItems')]
             /\ ~previewTooltip'.shown
       /\ (event'.type = "click" /\ MeasureSelected /\ state = "Done")
          => /\ pathItems' = <<>>
             /\ distance' = Whole(0)
             /\ state' = "Ready"]_vars

\* a measurement of two points went through Finishing and Done and the click
\* after Done has cleared it
C3_Witness ==
    /\ event.type = "click"
    /\ MeasureSelected
    /\ state = "Ready"
    /\ pathItems = <<>>
    /\ Longer(previewTooltip.content, Whole(0))

\* C4: with the measure tool selected and the state Ready or Measuring, a map
\* click appends exactly the clicked coordinate to the path and leaves the
\* state Measuring; after the first click of a path the distance is 0.
C4_ClickAppendsTheClickedCoordinate ==
    [][(event'.type = "click" /\ MeasureSelected /\ state \in {"Ready", "Measuring"})
       => /\ pathItems' = Append(pathItems, event'.latlng)
          /\ state' = "Measuring"
          /\ (pathItems = <<>> => distance' = Whole(0))]_vars

C4_Witness ==
    /\ event.type = "click"
    /\ MeasureSelected
    /\ state = "Measuring"
    /\ Len(pathItems) = MaxPath
    /\ pathItems[Len(pathItems)] = event.latlng
    /\ pathItems[1] # pathItems[2]

\* the sum of the distances between consecutive points of a path
RECURSIVE pathLength(_)
pathLength(path) ==
    IF Len(path) < 2 THEN Whole(0)
    ELSE plus(pathLength(SubSeq(path, 1, Len(path) - 1)),
              latLngDistance(path[Len(path) - 1], path[Len(path)]))

\* C5: the accumulated distance is the scale times the sum of the distances
\* between consecutive points of the committed path; the points (0,0), (3,4)
\* with scale 1 give 5.
C5_DistanceIsScaleTimesPathLength ==
    /\ distance = times(pathLength(pathItems), options.scale)
    /\ (/\ pathItems = <<[lat |-> 0, lng |-> 0], [lat |-> 3, lng |-> 4]>>
        /\ options.scale = 1)
       => distance = Whole(5)

C5_Witness ==
    /\ pathItems = <<[lat |-> 0, lng |-> 0], [lat |-> 3, lng |-> 4]>>
    /\ options.scale = 1
    /\ distance = Whole(5)

\* C6: deselecting the measure tool in any state clears the cursor override,
\* removes the move listener, empties the path, zeroes the distance and clears
\* the committed and the preview line; selecting it again starts in Ready with
\* zero distance and no preview line.
C6_DeselectClearsReselectStartsReady ==
    [][/\ (event'.type = "select" /\ MeasureSelected /\ event'.index # MeasureIndex)
          => /\ ~MeasureSelected'
             /\ cursor' = ""
             /\ moveListeners' = 0
             /\ pathItems' = <<>>
             /\ distance' = Whole(0)
             /\ pathLine' = <<>>
             /\ previewLine' = <<>>
       /\ (event'.type = "select" /\ event'.index = MeasureIndex)
          => /\ MeasureSelected'
             /\ state' = "Ready"
             /\ distance' = Whole(0)
             /\ previewLine' = <<>>]_vars

\* the measure tool was deselected after a measurement had begun, and the
\* tool is selected again
C6_Witness ==
    /\ event.type = "select"
    /\ event.index = MeasureIndex
    /\ MeasureSelected
    /\ state = "Ready"
    /\ Longer(previewTooltip.content, Whole(0))
    /\ previewLine = <<>>

\* C7: exactly one tool is selected at any time, initially the first one
\* (pan), and activeIndex designates the selected tool.
C7_ExactlyOneToolSelected ==
    /\ Cardinality({control \in Range(controls) : isSelected[control]}) = 1
    /\ isSelected[controlsAt(activeIndex)]
    /\ event.type = "init" => (activeIndex = 0 /\ isSelected["PanControl"])

C7_Witness ==
    /\ event.type = "select"
    /\ activeIndex = MeasureIndex
    /\ MeasureSelected
    /\ ~isSelected["PanControl"]

----------------------------------------------------------------------------
(* Claims about the validators *)

\* an optional minus sign, digits, and an optional fraction
IsNumberText(s) ==
    \E b \in 1..2, c \in 1..(Len(s) + 1) :
        /\ (b = 2) => (Len(s) >= 1 /\ s[1] = "-")
        /\ b < c
        /\ \A x \in b..(c - 1) : s[x] \in Digits
        /\ \/ c = Len(s) + 1
           \/ /\ s[c] = "."
              /\ c < Len(s)
              /\ \A x \in (c + 1)..Len(s) : s[x] \in Digits

\* the whole string is number, comma, number, with optional whitespace
IsNumberPair(s) ==
    \E k \in 1..Len(s) :
        /\ s[k] = ","
        /\ IsNumberText(trim(SubSeq(s, 1, k - 1)))
        /\ IsNumberText(trim(SubSeq(s, k + 1, Len(s))))

\* the whole string is 3 or 6 hex digits
IsHexColour(s) ==
    /\ Len(s) \in {3, 6}
    /\ \A x \in 1..Len(s) : s[x] \in Digits \cup HexLetters

\* the last call validated a marker object whose other properties are valid
MarkerValidated ==
    /\ validation.op = "SchemaValidator.marker"
    /\ IsObject(validation.value)
    /\ Get(validation.value, "icon") = SomeIcon
    /\ Get(validation.value, "mapName") = Undefined
    /\ Get(validation.value, "minZoom") = Undefined

\* C11: the marker validator accepts a coordinates value exactly when the
\* whole string is a whitespace-tolerant "number, number" pair: it rejects
\* "10," and "abc, 5" and accepts "10, -5".
C11_CoordinatesAcceptedIffNumberPair ==
    (/\ MarkerValidated
     /\ IsString(Get(validation.value, "coordinates"))
     /\ Get(validation.value, "colour") = Undefined)
    => validation.result = Returned(IsNumberPair(Get(validation.value, "coordinates").str))

\* C12: the marker validator accepts a custom colour only if it is exactly 3
\* or exactly 6 hex digits: "f44" is accepted, "ff45" and "ff4546aa" make the
\* marker rejected.
C12_ColourAcceptedOnlyIfThreeOrSixHexDigits ==
    (/\ MarkerValidated
     /\ Get(validation.value, "coordinates") = ValidCoordinates
     /\ IsString(Get(validation.value, "colour"))
     /\ Get(validation.value, "colour").str \notin PaletteNames)
    => validation.result = Returned(IsHexColour(Get(validation.value, "colour").str))

\* C13: a marker whose colour is one of the 10 palette names is accepted by
\* the validator (and rendered with the palette's hex value); red, ff4444 and
\* f44 are all valid colours.
C13_PaletteNamesAreAccepted ==
    (/\ MarkerValidated
     /\ Get(validation.value, "coordinates") = ValidCoordinates
     /\ \/ Get(validation.value, "colour") \in {Str(name) : name \in PaletteNames}
        \/ Get(validation.value, "colour")
              \in {Str(<<"f", "f", "4", "4", "4", "4">>), Str(<<"f", "4", "4">>)})
    => validation.result = Returned(TRUE)

\* C19: the marker and the map validator are total and pure: for every input
\* (null, non-objects, arrays, objects whose fields have any type) they return
\* a boolean without throwing and change neither the registry nor their
\* argument; null and non-object inputs are rejected.
C19_ValidatorsAreTotalAndPure ==
    [][validation'.op \in {"SchemaValidator.marker", "SchemaValidator.map"}
       => /\ validation'.result \in {Returned(TRUE), Returned(FALSE)}
          /\ ~IsObject(validation'.value) => validation'.result = Returned(FALSE)
          /\ validation'.result
               = IF validation'.op = "SchemaValidator.marker"
                 THEN SchemaValidator_marker(validation'.value)
                 ELSE SchemaValidator_map(validation'.value)
          /\ UNCHANGED buildVars]_vars

----------------------------------------------------------------------------
(* Claims about the marker schema *)

\* C14: the marker validator requires an icon: an entry with valid
\* coordinates but no icon, or with an icon outside the icon grammar, is
\* rejected and no record is registered for it.
C14_EntryWithoutIconIsNotRegistered ==
    [][\A entry \in {MarkerWithoutIcon, MarkerWithBadIcon} :
          buildMarkerData(fileWith(Arr(<<entry>>)))
          => (registered' = registered /\ markerMap' = markerMap)]_vars

----------------------------------------------------------------------------
(* Claims about the map resolution *)

\* the leaflet-map element of the fragment at position i
MapDiv(i) == tree[i].children[1]

\* the declaration of the block at position i
Declared(i) == parseMapFromNode(treeIn[i])

\* the minimum zoom of the declaration at i, 0 when it declares none
EffectiveMinZoom(i) == Nullish(Get(Declared(i), "minZoom"), Num(0))

\* C15: for every resolved map data-max-zoom is the maximum of the declared
\* maxZoom (2 when none is declared) and the effective minZoom, so data-max-zoom
\* >= data-min-zoom in every fragment; minZoom 2 with maxZoom 0 gives maxZoom 2.
C15_MaxZoomIsAtLeastMinZoom ==
    \A i \in RenderedMaps :
        LET declaredMax == Nullish(Get(Declared(i), "maxZoom"), Num(2 * Unit))
        IN /\ MapDiv(i).dataMinZoom = EffectiveMinZoom(i)
           /\ MapDiv(i).dataMaxZoom =
                 IF declaredMax.num >= EffectiveMinZoom(i).num
                 THEN declaredMax ELSE EffectiveMinZoom(i)
           /\ MapDiv(i).dataMaxZoom.num >= MapDiv(i).dataMinZoom.num
           /\ (/\ Get(Declared(i), "minZoom") = Num(2 * Unit)
               /\ Get(Declared(i), "maxZoom") = Num(0))
              => MapDiv(i).dataMaxZoom = Num(2 * Unit)

\* a map declared with minZoom 2 and maxZoom 0 was resolved
C15_Witness ==
    \E i \in RenderedMaps :
        /\ Get(Declared(i), "minZoom") = Num(2 * Unit)
        /\ Get(Declared(i), "maxZoom") = Num(0)
        /\ MapDiv(i).dataMaxZoom = Num(2 * Unit)

\* C16: for every resolved map data-default-zoom lies in [data-min-zoom,
\* data-max-zoom]: it is the declared defaultZoom clamped into that interval,
\* and the effective minZoom when no defaultZoom is declared.
C16_DefaultZoomIsClamped ==
    \A i \in RenderedMaps :
        LET declaredDefault == Get(Declared(i), "defaultZoom")
            div == MapDiv(i)
        IN /\ div.dataDefaultZoom.num >= div.dataMinZoom.num
           /\ div.dataDefaultZoom.num <= div.dataMaxZoom.num
           /\ div.dataDefaultZoom =
                 IF declaredDefault = Undefined THEN EffectiveMinZoom(i)
                 ELSE IF declaredDefault.num < div.dataMinZoom.num THEN div.dataMinZoom
                 ELSE IF declaredDefault.num > div.dataMaxZoom.num THEN div.dataMaxZoom
                 ELSE declaredDefault

\* a declared defaultZoom above the maximum was brought down to it
C16_Witness ==
    \E i \in RenderedMaps :
        /\ Get(Declared(i), "defaultZoom") = Num(5 * Unit)
        /\ MapDiv(i).dataMaxZoom = Num(3 * Unit)
        /\ MapDiv(i).dataDefaultZoom = Num(3 * Unit)

\* C17: every optional map field falls back to its default when omitted: a
\* declaration that gives only the map type and an image is valid and resolves
\* to a fragment with minZoom 0, maxZoom 2, zoom delta 0.5, height 600, scale 1
\* and unit "".
C17_TypeAndImageResolveWithDefaults ==
    \A i \in DOMAIN tree :
        (/\ treeIn[i] = codeNode(<<ViewTypeAndImage>>)
         /\ lastCall.op = "transformMapElement"
         /\ ~lastCall.threw)
        => /\ i \in RenderedMaps
           /\ MapDiv(i).dataMinZoom = Num(0)
           /\ MapDiv(i).dataMaxZoom = Num(2 * Unit)
           /\ MapDiv(i).dataZoomDelta = Num(Unit \div 2)
           /\ MapDiv(i).dataHeight = Num(600 * Unit)
           /\ MapDiv(i).dataScale = Num(Unit)
           /\ MapDiv(i).dataUnit = Str(<<>>)

\* the block is a code block of language "base" with a valid map declaration
IsMapDeclaration(node) ==
    /\ node.tagName = "code"
    /\ node.dataLanguage = "base"
    /\ parseMapFromNode(node) \notin {Undefined, YAMLParseError}

\* C20: transformMapElement leaves every block that is no recognised map
\* declaration, or whose declaration fails validation, untouched and raises no
\* error for it; only blocks with a valid map declaration are replaced, at the
\* same index, by the rendered fragment.
C20_OnlyValidDeclarationsAreReplaced ==
    lastCall.op = "transformMapElement" =>
        /\ Len(tree) = Len(treeIn)
        /\ \A i \in DOMAIN treeIn :
              IF IsMapDeclaration(treeIn[i])
              THEN \/ tree[i] = treeIn[i] /\ lastCall.threw
                   \/ /\ i \in RenderedMaps
                      /\ MapDiv(i).dataSrc.transformLink[2]
                             = toStringOf(Get(Declared(i), "image"))
                      /\ MapDiv(i).dataMinZoom = EffectiveMinZoom(i)
              ELSE tree[i] = treeIn[i]
        /\ (\A i \in DOMAIN treeIn : ~IsMapDeclaration(treeIn[i])) => ~lastCall.threw

----------------------------------------------------------------------------
(* Claims about the visibility of the markers *)

\* the marker is one a zoom of z shows under the tolerance of 0.00001
WithinTolerance(marker, z) ==
    /\ "num" \in DOMAIN marker.markerZoom
    /\ IF "below" \in DOMAIN marker.markerZoom /\ ~marker.markerZoom.neg
       THEN z >= marker.markerZoom.num
       ELSE z >= marker.markerZoom.num - 1

\* C18: after the initial placement and after every zoom change a marker is
\* on the map iff the zoom reaches its minZoom under the tolerance of about
\* 0.00001; a marker with minZoom 1.5 is hidden at zoom 1.49999 and visible at
\* zoom 1.5.
C18_MarkerHiddenAtZoomJustBelow ==
    \A k \in DOMAIN navMaps :
        \A i \in DOMAIN navMaps[k].placed :
            /\ navMaps[k].placed[i].onMap
                   <=> WithinTolerance(navMaps[k].placed[i], navMaps[k].zoom.num)
            /\ (/\ navMaps[k].placed[i].minZoom = <<"1", ".", "5">>
                /\ navMaps[k].zoom = Num((3 * Unit) \div 2 - 1))
               => ~navMaps[k].placed[i].onMap
            /\ (/\ navMaps[k].placed[i].minZoom = <<"1", ".", "5">>
                /\ navMaps[k].zoom = Num((3 * Unit) \div 2))
               => navMaps[k].placed[i].onMap

----------------------------------------------------------------------------
(* Claims about the builds of one process *)

\* the identities of the markers registered before the current build began
RegisteredInEarlierBuild ==
    {registered[j].id : j \in 1..buildStart}

\* C22: the registry is empty at the start of every build: records registered
\* during one build are never returned by the lookups of a later build, so each
\* marker of a document that is built again is rendered exactly once.
C22_RegistryIsEmptyAtBuildStart ==
    /\ lastCall.op = "LeafletMap" => \A key \in DOMAIN markerMap : markerMap[key] = <<>>
    /\ lastCall.op = "transformMapElement" =>
          \A i \in RenderedMaps :
              \A k \in DOMAIN MarkerChildren(i) :
                  MarkerChildren(i)[k].of \notin RegisteredInEarlierBuild

----------------------------------------------------------------------------
(* Claims about the unassigned bucket *)

\* C23: markers registered without a map name are rendered on every map
\* resolved afterwards, whatever its name; a map declaration without a name
\* renders exactly the markers of the unassigned bucket and no marker that was
\* registered under a map name.
C23_UnassignedMarkersOnEveryMap ==
    \A i \in RenderedMaps :
        /\ \A marker \in Range(RegisteredBefore) :
              Falsy(Get(marker, "mapName")) => Occurrences(i, marker) >= 1
        /\ Falsy(MapNameAt(i)) =>
              \A k \in DOMAIN MarkerChildren(i) :
                  Falsy(Get(MarkerOf(MarkerChildren(i)[k].of), "mapName"))

----------------------------------------------------------------------------
(* Claims about the states of the measure tool *)

MeasureTransitions ==
    {<<"Ready", "Measuring">>, <<"Measuring", "Measuring">>,
     <<"Measuring", "Finishing">>, <<"Finishing", "Done">>, <<"Done", "Ready">>}

\* C24: under any interleaving of map clicks, tail-marker clicks, pointer
\* moves and tool selections the state of the measure tool changes only along
\* Ready -> Measuring, Measuring -> Measuring, Measuring -> Finishing,
\* Finishing -> Done and Done -> Ready, and from any state to Ready when the
\* tool is deselected; no other change, such as Done -> Finishing or
\* Ready -> Finishing, is reachable.
C24_StateChangesAlongTheMachine ==
    [][state' # state =>
          \/ <<state, state'>> \in MeasureTransitions
          \/ event'.type = "select" /\ state' = "Ready"]_vars

\* C25: a pointer move never changes the committed path, the accumulated
\* distance or the state of the tool: while Measuring it only redraws the
\* preview segment from the last committed point to the pointer and refreshes
\* the tooltip with the committed plus the preview distance, and in Ready,
\* Finishing and Done it changes nothing at all.
C25_PointerMoveOnlyRedrawsThePreview ==
    [][event'.type = "mousemove" =>
          /\ pathItems' = pathItems
          /\ distance' = distance
          /\ state' = state
          /\ <<isSelected, activeIndex, cursor, moveListeners, pathLine, pointLayer,
               lastElement, options>>' =
             <<isSelected, activeIndex, cursor, moveListeners, pathLine, pointLayer,
               lastElement, options>>
          /\ IF MeasureSelected /\ state = "Measuring" /\ pathItems # <<>>
             THEN /\ previewLine' = <<pathItems[Len(pathItems)], event'.latlng>>
                  /\ previewTooltip' =
                        [previewTooltip EXCEPT
                            !.latlng = event'.latlng,
                            !.content =
                                plus(distance,
                                     times(latLngDistance(pathItems[Len(pathItems)],
                                                          event'.latlng),
                                           options.scale))]
             ELSE /\ previewLine' = previewLine
                  /\ previewTooltip' = previewTooltip]_vars

\* the pointer moved away from the tail of a path of two points and the
\* tooltip shows more than the committed distance
C25_Witness ==
    /\ event.type = "mousemove"
    /\ state = "Measuring"
    /\ Len(pathItems) = 2
    /\ Longer(distance, Whole(0))
    /\ previewLine = <<pathItems[2], event.latlng>>
    /\ event.latlng # pathItems[2]
    /\ Longer(previewTooltip.content, distance)

----------------------------------------------------------------------------
(* Claims about the selection of a tool *)

\* nothing the measure tool acquires is held
MeasureReleased ==
    /\ cursor = ""
    /\ moveListeners = 0
    /\ pathItems = <<>>
    /\ pointLayer = <<>>
    /\ pathLine = <<>>
    /\ previewLine = <<>>
    /\ ~previewTooltip.shown

\* C30: selecting a tool first runs onDeselected of the tool selected before
\* and only then onSelected of the new tool, so after any sequence of
\* selections a deselected tool holds none of what it acquired (crosshair
\* cursor, pointer-move listener, content of the path and preview layers) and
\* the selected tool holds what its onSelected acquires.
C30_DeselectedThenSelected ==
    [][/\ ~MeasureSelected' => MeasureReleased'
       /\ event'.type = "select" =>
             /\ isSelected'[controlsAt(event'.index)]
             /\ activeIndex' = event'.index
             /\ event'.index = MeasureIndex =>
                   /\ cursor' = "crosshair"
                   /\ moveListeners' = 1
                   /\ state' = "Ready"
                   /\ pathItems' = <<>>
                   /\ previewLine' = <<>>
             /\ event'.index # MeasureIndex => MeasureReleased']_vars

\* the pan tool was selected after the measure tool had measured
C30_Witness ==
    /\ event.type = "select"
    /\ event.index # MeasureIndex
    /\ isSelected["PanControl"]
    /\ ~MeasureSelected
    /\ MeasureReleased
    /\ Longer(previewTooltip.content, Whole(0))

----------------------------------------------------------------------------
(* Claims about the views of the client *)

\* a map item was made for the element
Created(k) == navMaps[k].mapItem \in {"alive", "removed"}

\* C21: if the image of one map fails to load, no map item is made for that
\* element, and the other map elements of the same view are not affected: their
\* marker nodes are removed, the image of each with a complete dataset is
\* requested, and each whose image loads has its map item made and its
\* teardown registered.
C21_FailedImageLeavesTheOtherMaps ==
    \A k \in DOMAIN navMaps :
        navMaps[k].image = "failed" =>
            /\ navMaps[k].mapItem = "none"
            /\ \A j \in DOMAIN navMaps :
                  (j # k /\ navMaps[j].view = navMaps[k].view) =>
                     /\ navMaps[j].markerNodes = 0
                     /\ navMaps[j].accepted => navMaps[j].image # "none"
                     /\ navMaps[j].image = "loaded" =>
                           /\ Created(j)
                           /\ navMaps[j].mapItem = "alive" => j \in cleanupFns

\* C26: if the view is deactivated while the image of a map is still loading,
\* the later completion of that load is ignored: it makes and configures no
\* map item on the element that is no longer in the document.
C26_LateCompletionIsIgnored ==
    \A k \in DOMAIN navMaps :
        (~navMaps[k].attached /\ navMaps[k].image = "loaded") =>
            ~navMaps[k].late

\* C27: every map item made for a view has its teardown registered before
\* the view is deactivated, and the deactivation destroys it: no map item made
\* for a view is alive after the deactivation of that view, whatever the order
\* of the image loads and the view changes.
C27_NoMapItemOutlivesItsView ==
    \A k \in DOMAIN navMaps :
        /\ navMaps[k].mapItem = "alive" => k \in cleanupFns
        /\ ~navMaps[k].attached => navMaps[k].mapItem # "alive"

\* C28: every fragment the resolver renders for a valid map declaration is
\* accepted by the client's isMapDataSet, so a map item is made for it once its
\* image has loaded; also when unit, scale, height or a zoom have their default
\* or the value 0.
C28_RenderedMapIsAcceptedByTheClient ==
    \A k \in DOMAIN navMaps :
        /\ navMaps[k].accepted
        /\ (navMaps[k].image = "loaded" /\ navMaps[k].attached) => Created(k)

\* C29: every marker the build validates and renders as a child of a map
\* fragment is accepted by the client's isMarkerDataSet and becomes an
\* interactive marker: a map has as many interactive markers as its fragment
\* has marker children.
C29_EveryRenderedMarkerIsInteractive ==
    \A k \in DOMAIN navMaps :
        /\ navMaps[k].markerData = navMaps[k].children
        /\ Created(k) => navMaps[k].markers = navMaps[k].children

----------------------------------------------------------------------------
(* Claims about the dispatch of clicks *)

\* the fields of the measure tool and of the container, without the event
ToolFields == <<isSelected, activeIndex, cursor, moveListeners, state, pathItems, distance,
                pathLine, previewLine, previewTooltip, pointLayer, lastElement, options>>

\* C31: a map click goes to the selected tool only: while the pan tool is
\* selected, a map click changes nothing of the measure tool, whose state is
\* and stays Ready, whose path is and stays empty and whose distance is and
\* stays 0; the pan tool has no state that the click could change.
C31_PanIgnoresMapClicks ==
    [][(event'.type = "click" /\ isSelected["PanControl"])
       => /\ UNCHANGED ToolFields
          /\ state = "Ready" /\ state' = "Ready"
          /\ pathItems = <<>> /\ pathItems' = <<>>
          /\ distance = Whole(0) /\ distance' = Whole(0)
          /\ pointLayer' = <<>>
          /\ moveListeners' = 0]_vars

\* the map was clicked with the pan tool selected, after a measurement that the
\* selection of the pan tool had cleared
C31_Witness ==
    /\ event.type = "click"
    /\ isSelected["PanControl"]
    /\ ~MeasureSelected
    /\ Longer(previewTooltip.content, Whole(0))
    /\ state = "Ready"

\* the circle markers of the point layer that have the click listener
Clickable(layer) == {i \in DOMAIN layer : layer[i].click}

\* C32: at most one circle marker has the click listener that sets Finishing,
\* and it is the marker of the last point of the committed path; a click on an
\* earlier point of the path changes nothing of the tool, and after a reset or
\* a deselection no point is left that could be clicked.
C32_OnlyTheTailHasTheClickListener ==
    [][/\ Cardinality(Clickable(pointLayer')) <= 1
       /\ \A i \in Clickable(pointLayer') :
             /\ i = Len(pointLayer')
             /\ i = lastElement'
             /\ Len(pathItems') = Len(pointLayer')
             /\ pointLayer'[i].latlng = pathItems'[Len(pathItems')]
       /\ (event'.type = "circleclick" /\ event'.index \notin Clickable(pointLayer))
          => UNCHANGED ToolFields
       /\ pathItems' = <<>> => pointLayer' = <<>>]_vars

\* an earlier point of a path of several points was clicked during the
\* measurement, and the tail has the listener
C32_Witness ==
    /\ event.type = "circleclick"
    /\ event.index < Len(pointLayer)
    /\ state = "Measuring"
    /\ Clickable(pointLayer) = {Len(pointLayer)}

----------------------------------------------------------------------------
(* Claims about the registry and the rendered fragments *)

\* C33: no marker record is rendered more than once among the marker children
\* of one map fragment, whatever the map names of the markers and the name of
\* the map are, the key of the unassigned bucket among them.
C33_NoMarkerTwiceOnAMap ==
    \A i \in RenderedMaps :
        \A marker \in Range(registered) : Occurrences(i, marker) <= 1

----------------------------------------------------------------------------
(* Claims about the marker nodes of a view *)

\* the element has this data attribute, and its value is not empty
HasAttribute(div, property) ==
    /\ attributeOf(div[property]) # Undefined
    /\ attributeOf(div[property]).str # <<>>

\* the attributes of the marker node are a complete marker dataset
CompleteMarker(div) ==
    \A property \in {"dataName", "dataLink", "dataCoordinates", "dataIcon",
                     "dataColour", "dataMinZoom"} : HasAttribute(div, property)

\* C34: when the client takes up a map fragment, every marker child node is
\* removed from the document, whether its attributes are a complete marker
\* dataset or not and whether the map is made afterwards or not; a marker
\* record comes from a node exactly if its dataset is complete.
C34_EveryMarkerNodeIsRemoved ==
    /\ \A k \in DOMAIN navMaps :
          /\ navMaps[k].markerNodes = 0
          /\ navMaps[k].markerData <= navMaps[k].children
          /\ navMaps[k].markers <= navMaps[k].markerData
    /\ \A page \in PageInputs : \A m \in DOMAIN page :
          /\ \A i \in DOMAIN page[m].children :
                /\ forEachMarkerNode(page[m])[i].removed
                /\ forEachMarkerNode(page[m])[i].pushed <=> CompleteMarker(page[m].children[i])
          /\ Len(getMarkerData(page[m]))
             = Cardinality({i \in DOMAIN page[m].children :
                               CompleteMarker(page[m].children[i])})

\* the reader has seen a map that was not made and a map with a marker node
\* of an incomplete dataset; the marker nodes of both are gone
C34_Witness ==
    \E k, j \in DOMAIN navMaps :
        /\ ~navMaps[k].accepted
        /\ navMaps[k].mapItem = "none"
        /\ navMaps[k].children > 0
        /\ navMaps[k].markerNodes = 0
        /\ navMaps[j].markerData < navMaps[j].children
        /\ navMaps[j].markerData > 0
        /\ navMaps[j].markerNodes = 0

----------------------------------------------------------------------------
(* Claims about the growth of the registry *)

IsPrefix(short, long) ==
    /\ Len(short) <= Len(long)
    /\ SubSeq(long, 1, Len(short)) = short

\* C35: the registry only grows: no step of the build (a registration, a
\* lookup, the resolution of a map, a document whose marker metadata is
\* missing or invalid) removes a bucket or removes, reorders or modifies a
\* record that is stored; each bucket is a prefix of what it is afterwards.
C35_RegistryOnlyGrows ==
    [][\A key \in DOMAIN markerMap :
          /\ key \in DOMAIN markerMap'
          /\ IsPrefix(markerMap[key], markerMap'[key])]_vars

\* a bucket got its second record in the last step, after a map was resolved
C35_Witness ==
    /\ lastCall.op = "buildMarkerData"
    /\ RenderedMaps # {}
    /\ \E key \in DOMAIN markerMap : Len(markerMap[key]) >= 2

\* the records of a bucket when the last tree was transformed
BucketBefore(key) ==
    SelectSeq(RegisteredBefore, LAMBDA marker : bucketKey(Get(marker, "mapName")) = key)

IdsOf(markers) == [k \in DOMAIN markers |-> markers[k].id]

\* C36: a rendered map fragment is a snapshot of the registry at the time its
\* block was resolved: its marker children are the unassigned bucket and the
\* bucket of its name as they were then, a marker registered afterwards is not
\* among them, and each of the two buckets as rendered is a prefix of the same
\* bucket now, which a map of the same name resolved now would carry.
C36_FragmentIsASnapshot ==
    \A i \in RenderedMaps :
        LET M == MapNameAt(i)
            snapshot == BucketBefore(NotDefinedMap)
                        \o (IF Falsy(M) THEN <<>> ELSE BucketBefore(M.str))
        IN /\ [k \in DOMAIN MarkerChildren(i) |-> MarkerChildren(i)[k].of] = IdsOf(snapshot)
           /\ \A n \in DOMAIN registered :
                 n > treeAt => Occurrences(i, registered[n]) = 0
           /\ IsPrefix(BucketBefore(NotDefinedMap), markerMap[NotDefinedMap])
           /\ (~Falsy(M) /\ M.str \in DOMAIN markerMap)
              => IsPrefix(BucketBefore(M.str), markerMap[M.str])

\* a map was resolved with one marker of its name, and a second marker of that
\* name was registered afterwards: the fragment still has the one child
C36_Witness ==
    \E i \in RenderedMaps :
        /\ MapNameAt(i) = Str(NameLower)
        /\ Len(MarkerChildren(i)) = 1
        /\ NameLower \in DOMAIN markerMap
        /\ Len(markerMap[NameLower]) = 2
        /\ treeAt = 1
        /\ Len(registered) = 2

----------------------------------------------------------------------------
(* Claims about the minimum zoom of a marker *)

\* C37: every rendered marker child has as data-min-zoom the minZoom of its
\* marker whenever the marker declared one, 0 and negative values included, and
\* the minZoom of the map that hosts it only when the marker declared none; the
\* attribute the client reads is the decimal text of that number.
C37_MarkerKeepsItsOwnMinZoom ==
    \A i \in RenderedMaps :
        /\ MapDiv(i).dataMinZoom = EffectiveMinZoom(i)
        /\ \A k \in DOMAIN MarkerChildren(i) :
              LET child == MarkerChildren(i)[k]
                  own == Get(MarkerOf(child.of), "minZoom")
              IN /\ own # Undefined => child.dataMinZoom = own
                 /\ own = Undefined => child.dataMinZoom = EffectiveMinZoom(i)
                 /\ IsNumber(child.dataMinZoom)
                 /\ Get(markerDataset(child), "minZoom")
                    = Str(numberToString(child.dataMinZoom.num))

\* a map with minZoom 2 hosts a marker that declared minZoom 0 and a marker
\* that declared none
C37_Witness ==
    \E i \in RenderedMaps :
        /\ EffectiveMinZoom(i) = Num(2 * Unit)
        /\ \E k, n \in DOMAIN MarkerChildren(i) :
              /\ Get(MarkerOf(MarkerChildren(i)[k].of), "minZoom") = Num(0)
              /\ MarkerChildren(i)[k].dataMinZoom = Num(0)
              /\ Get(markerDataset(MarkerChildren(i)[k]), "minZoom") = Str(<<"0">>)
              /\ Get(MarkerOf(MarkerChildren(i)[n].of), "minZoom") = Undefined
              /\ MarkerChildren(i)[n].dataMinZoom = Num(2 * Unit)

====
